---- MODULE Spec2Model ----
(***************************************************************************)
(* Gallium ("Galium-Vanilla"), the software-rendering display server of    *)
(* the Galactica repository: security helpers (security.c), the            *)
(* shared-memory pool and buffer manager (shm.c), the surface registry     *)
(* (compositor.c), the output and its repaint (output.c) and the renderer  *)
(* (renderer.c).  The server is single threaded: every protocol request    *)
(* is dispatched to one handler that runs to completion, so each handler   *)
(* is one action.                                                          *)
(***************************************************************************)
EXTENDS Integers, Sequences, FiniteSets, TLC

VARIABLES
    surfaces,       \* compositor->surfaces, head of the wl_list first
    created,        \* history: ids of the live surfaces, oldest first
    damage_reqs,    \* history: per live surface, the rectangles accepted as damage
    committed,      \* history: per live surface, the buffer it held at its last commit
    sec_clients,    \* sec_ctx->clients, head of the wl_list first
    outputs,        \* compositor->outputs, head of the wl_list first
    frame_count,    \* static int frame_count of output_repaint
    pools,          \* live wl_shm_pool resources with their pool_data
    buffers,        \* live wl_buffer resources with their galium_shm_buffer
    open_fds,       \* descriptors the server holds open
    mapped,         \* regions the server has mmap()ed and not munmap()ed
    bad_close,      \* history: number of close() calls on a descriptor not open
    client_err,     \* per client: a protocol error or no-memory was posted
    last,           \* the request dispatched last and what the server answered
    snapshots,      \* history: per repaint, the index in its file name and the file
    pc,             \* the step of main() that runs next
    live,           \* the resources main() has created and not destroyed
    exit_status,    \* << >> while the process lives, << status >> once it has exited
    sec_ctx,        \* main's security context, NULL when there is none
    released,       \* history: the memory operations of secure_free and of
                    \* security_context_destroy, in order
    random_call,    \* the call of secure_random_bytes in progress
    callbacks       \* live wl_callback resources made by wl_surface.frame

vars == << surfaces, created, damage_reqs, committed, sec_clients, outputs,
           frame_count,
           pools, buffers, open_fds, mapped, bad_close, client_err, last,
           snapshots, pc, live, exit_status, sec_ctx, released, random_call,
           callbacks >>

surface_vars == << surfaces, created, damage_reqs, committed, sec_clients >>
output_vars == << outputs, frame_count, snapshots >>
shm_vars == << pools, buffers, open_fds, mapped, bad_close >>
main_vars == << pc, live, exit_status, sec_ctx, released, random_call >>

-----------------------------------------------------------------------------
(* Program constants.                                                      *)

MAX_SURFACES_PER_CLIENT == 100
MAX_BUFFER_WIDTH == 3840
MAX_BUFFER_HEIGHT == 2160
INT32_MAX == 2147483647
WL_SHM_FORMAT_ARGB8888 == 0
WL_SHM_FORMAT_XRGB8888 == 1
WL_SHM_ERROR_INVALID_FORMAT == "invalid_format"
WL_SHM_ERROR_INVALID_STRIDE == "invalid_stride"
WL_SHM_ERROR_INVALID_FD == "invalid_fd"
WL_DISPLAY_ERROR_NO_MEMORY == "no_memory"
WL_DISPLAY_ERROR_INVALID_OBJECT == "invalid_object"
WL_DISPLAY_ERROR_INVALID_METHOD == "invalid_method"
NoError == "none"

(* Bounds of the model.                                                    *)

NumClients == 2      \* client connections
MaxSurfaces == 2     \* live surfaces
RegClient == 1       \* the client that exercises the registry on its own
MaxSecEntries == 2   \* client_security entries ever allocated
MaxPools == 1        \* live pools in the main specification
MaxShmPools == 2     \* live pools in SpecShm
MaxClientSurfaces == 3   \* live surfaces, and registry entries, in SpecClients
MaxBuffers == 2      \* live buffers
MaxFds == 2          \* descriptors open at once
MaxFrames == 2       \* repaints counted by frame_count
OutW == 2            \* output width in pixels (800 in main)
OutH == 1            \* output height in pixels (600 in main)
MaxRects == 2        \* damage rectangles accepted on one surface
ProbeSurfaces == 101 \* surfaces one client creates in SpecLimit

Clients == 1 .. NumClients

\* one more connection, whose peer process is not visible to the server: the
\* socket reports pid 0 for it
DetachedClient == NumClients + 1

\* two more connections whose peer process cannot be classified: one has
\* exited and been reaped (no /proc entry), one is a zombie (its command line
\* reads as empty)
GoneClient == NumClients + 2
ZombieClient == NumClients + 3

AllClients == Clients \cup {DetachedClient, GoneClient, ZombieClient}

NULL == << >>      \* a null pointer, where the model holds the pointed-to record
NoObject == 0      \* a null pointer, where the model holds the object's id

-----------------------------------------------------------------------------
(* 32-bit unsigned arithmetic.  A uint32_t is the pair of its 16-bit       *)
(* halves << hi, lo >>, so that no intermediate value leaves the integers  *)
(* TLC computes with.                                                      *)

Half == 2^16

\* (uint32_t)i for an int32_t i: two's complement reinterpretation
ToU32(i) ==
    IF i >= 0 THEN << i \div Half, i % Half >>
    ELSE << Half + (i \div Half), i % Half >>

\* (int32_t)u < 0
AsInt32Negative(u) == u[1] >= 32768

U32Gt(a, b) == a[1] > b[1] \/ (a[1] = b[1] /\ a[2] > b[2])

\* a - b modulo 2^32
U32Sub(a, b) ==
    LET borrow == IF a[2] < b[2] THEN 1 ELSE 0
    IN  << (a[1] - b[1] - borrow) % Half, (a[2] - b[2]) % Half >>

U32IsZero(a) == a[1] = 0 /\ a[2] = 0

\* the value of a uint32_t known to be below 2^31
U32Val(a) == a[1] * Half + a[2]

-----------------------------------------------------------------------------
(* security.c: input validation.                                           *)

\* validate_geometry without its overflow test
validate_geometry_unchecked_sum(x, y, width, height) ==
    IF AsInt32Negative(width) \/ AsInt32Negative(height) THEN FALSE
    ELSE IF U32Gt(width, ToU32(MAX_BUFFER_WIDTH))
            \/ U32Gt(height, ToU32(MAX_BUFFER_HEIGHT)) THEN FALSE
    ELSE IF U32IsZero(width) \/ U32IsZero(height) THEN FALSE
    ELSE TRUE

validate_geometry(x, y, width, height) ==
    IF AsInt32Negative(width) \/ AsInt32Negative(height) THEN FALSE
    ELSE IF U32Gt(width, U32Sub(ToU32(INT32_MAX), ToU32(x)))
            \/ U32Gt(height, U32Sub(ToU32(INT32_MAX), ToU32(y))) THEN FALSE
    ELSE IF U32Gt(width, ToU32(MAX_BUFFER_WIDTH))
            \/ U32Gt(height, ToU32(MAX_BUFFER_HEIGHT)) THEN FALSE
    ELSE IF U32IsZero(width) \/ U32IsZero(height) THEN FALSE
    ELSE TRUE

\* validate_buffer_size with the bounds themselves rejected
validate_buffer_size_exclusive(width, height) ==
    IF ~U32Gt(ToU32(MAX_BUFFER_WIDTH), width)
       \/ ~U32Gt(ToU32(MAX_BUFFER_HEIGHT), height) THEN FALSE
    ELSE TRUE

\* bytes > SIZE_MAX, evaluated after the bounds test, where both factors are
\* small.  SIZE_MAX is taken as 2^32 - 1, the smallest size type the code is
\* built for; a uint64_t never exceeds the 64-bit SIZE_MAX.
BufferBytesOverflow(width, height) ==
    LET pixels == U32Val(width) * U32Val(height)
        bytes  == pixels * 4
    IN  (bytes \div Half) >= Half

validate_buffer_size(width, height) ==
    IF U32Gt(width, ToU32(MAX_BUFFER_WIDTH))
       \/ U32Gt(height, ToU32(MAX_BUFFER_HEIGHT)) THEN FALSE
    ELSE IF BufferBytesOverflow(width, height) THEN FALSE
    ELSE TRUE

\* check_surface_limit with the limit itself allowed
check_surface_limit_inclusive(client) ==
    IF client = NULL THEN FALSE
    ELSE IF client.surface_count > MAX_SURFACES_PER_CLIENT THEN FALSE
    ELSE TRUE

check_surface_limit(client) ==
    IF client = NULL THEN FALSE
    ELSE IF client.surface_count >= MAX_SURFACES_PER_CLIENT THEN FALSE
    ELSE TRUE

\* /proc/<pid>/cmdline of the connected clients: client 2 is a VM tool
Cmdline(pid) == IF pid = 4002 THEN "qemu-system-x86_64" ELSE "test_client"

\* open("/proc/<pid>/cmdline") and read(fd, cmdline, 1023): the descriptor
\* (-1 when the file cannot be opened), the bytes read and the text
ProcCmdline(pid) ==
    IF pid = 4000 + GoneClient THEN [fd |-> -1, n |-> 0, text |-> ""]
    ELSE IF pid = 4000 + ZombieClient THEN [fd |-> 3, n |-> 0, text |-> ""]
    ELSE [fd |-> 3, n |-> IF pid = 4002 THEN 18 ELSE 11, text |-> Cmdline(pid)]

\* is_vm_process that takes a process it cannot inspect for a VM
is_vm_process_unreadable_is_vm(pid) ==
    LET f == ProcCmdline(pid)
    IN  IF f.fd < 0 THEN TRUE
        ELSE IF f.n <= 0 THEN TRUE
        ELSE f.text \in {"qemu-system-x86_64", "xen", "xl"}

is_vm_process(pid) ==
    LET f == ProcCmdline(pid)
    IN  IF f.fd < 0 THEN FALSE
        ELSE IF f.n <= 0 THEN FALSE
        ELSE f.text \in {"qemu-system-x86_64", "xen", "xl"}

\* SO_PEERCRED of the connection
Credentials(c) ==
    [pid |-> IF c = DetachedClient THEN 0 ELSE 4000 + c, uid |-> 1000,
     gid |-> 1000]

\* the entry as the function leaves it, and the value it returns
validate_client_credentials(c, sec) ==
    LET cred == Credentials(c)
        got  == [sec EXCEPT !.pid = cred.pid, !.uid = cred.uid, !.gid = cred.gid]
    IN  IF got.pid <= 0 THEN [ok |-> FALSE, sec |-> got]
        ELSE [ok |-> TRUE,
              sec |-> [got EXCEPT !.is_vm = is_vm_process(got.pid),
                                  !.surface_count = 0]]

-----------------------------------------------------------------------------
(* Pixels.  A 32-bit a8r8g8b8 pixel is the tuple << a, r, g, b >> of its   *)
(* four 8-bit channels.                                                    *)

Black0 == << 0, 0, 0, 0 >>                 \* memset(fb_data, 0, fb_size)

\* pixman_color_t of the renderer: 16-bit channels
bg_color == [red |-> 8192, green |-> 8192, blue |-> 8192, alpha |-> 65535]

\* pixman's conversion of a solid colour to a8r8g8b8: the high byte of each
color_to_pixel(c) ==
    << c.alpha \div 256, c.red \div 256, c.green \div 256, c.blue \div 256 >>

\* what each client drew into the memory of its buffer `id` (draw_solid_color)
BufferColour(id) ==
    IF id = 1 THEN << 255, 255, 0, 0 >> ELSE << 255, 0, 255, 0 >>

\* pixman MUL_UN8: a * b / 255, rounded
MulUn8(a, b) ==
    LET t == a * b + 128 IN ((t \div 256) + t) \div 256

\* PIXMAN_OP_OVER on premultiplied pixels: src + dest * (255 - src alpha)
Over(src, dst) ==
    [ch \in 1 .. 4 |->
        LET v == src[ch] + MulUn8(dst[ch], 255 - src[1])
        IN  IF v > 255 THEN 255 ELSE v]

\* a pixel read through an image: x8r8g8b8 ignores the stored alpha
ImagePixel(image) ==
    IF image.format = "x8r8g8b8"
    THEN << 255, image.bits[2], image.bits[3], image.bits[4] >>
    ELSE image.bits

-----------------------------------------------------------------------------
(* shm.c: the pixel view of a buffer.                                      *)

\* libwayland: the wl_shm_buffer behind a resource, or NULL when the resource
\* is not a buffer that libwayland's own wl_shm implementation created.
wl_shm_buffer_get(resource) ==
    IF resource = NULL THEN NULL
    ELSE IF resource.implementation = "shm_buffer_interface"
    THEN resource.shm_buffer
    ELSE NULL

\* the resource a buffer id names for the server
BufferResource(id) ==
    IF id = NoObject \/ ~(\E b \in buffers : b.id = id) THEN NULL
    ELSE CHOOSE b \in buffers : b.id = id

\* pixman: the image over `bits`, or NULL when the row stride is not a
\* multiple of sizeof(uint32_t) or the image record cannot be allocated
pixman_image_create_bits(format, width, height, bits, stride, alloc_ok) ==
    IF stride % 4 # 0 \/ ~alloc_ok THEN NULL
    ELSE [format |-> format, width |-> width, height |-> height,
          stride |-> stride, bits |-> bits]

\* a pixel view taken from the buffer's own record and the client's memory
shm_buffer_get_image_direct(buffer_resource, alloc_ok) ==
    IF buffer_resource = NULL THEN NULL
    ELSE [format |-> "a8r8g8b8", width |-> buffer_resource.width,
          height |-> buffer_resource.height,
          stride |-> 4 * buffer_resource.width,
          bits |-> BufferColour(buffer_resource.id)]

\* shm_buffer_get_image(buffer_resource): NULL for a resource that is no
\* wl_shm buffer and for a format other than the two, else what
\* pixman_image_create_bits makes of the buffer's memory; alloc_ok: pixman
\* gets the memory it asks for
shm_buffer_get_image(buffer_resource, alloc_ok) ==
    LET shm_buffer == wl_shm_buffer_get(buffer_resource)
    IN  IF shm_buffer = NULL THEN NULL
        ELSE IF shm_buffer.format = WL_SHM_FORMAT_ARGB8888
        THEN pixman_image_create_bits("a8r8g8b8", shm_buffer.width,
                                      shm_buffer.height, shm_buffer.data,
                                      shm_buffer.stride, alloc_ok)
        ELSE IF shm_buffer.format = WL_SHM_FORMAT_XRGB8888
        THEN pixman_image_create_bits("x8r8g8b8", shm_buffer.width,
                                      shm_buffer.height, shm_buffer.data,
                                      shm_buffer.stride, alloc_ok)
        ELSE NULL

\* shm_buffer_get_image that leaves on the unsupported-format path without
\* closing the access
shm_buffer_get_image_accesses_left_open(buffer_resource) ==
    LET shm_buffer == wl_shm_buffer_get(buffer_resource)
    IN  IF shm_buffer = NULL THEN << >>
        ELSE LET begun == << "begin_access" >>
             IN  IF shm_buffer.format = WL_SHM_FORMAT_ARGB8888
                    \/ shm_buffer.format = WL_SHM_FORMAT_XRGB8888
                 THEN begun \o << "create_bits", "end_access" >>
                 ELSE begun

\* the calls shm_buffer_get_image makes on the buffer, in order:
\* wl_shm_buffer_begin_access, pixman_image_create_bits on its memory,
\* wl_shm_buffer_end_access
shm_buffer_get_image_accesses(buffer_resource) ==
    LET shm_buffer == wl_shm_buffer_get(buffer_resource)
    IN  IF shm_buffer = NULL THEN << >>
        ELSE LET begun == << "begin_access" >>
             IN  IF shm_buffer.format = WL_SHM_FORMAT_ARGB8888
                    \/ shm_buffer.format = WL_SHM_FORMAT_XRGB8888
                 THEN begun \o << "create_bits", "end_access" >>
                 ELSE begun \o << "end_access" >>

-----------------------------------------------------------------------------
(* output.c and renderer.c.                                                *)

PixelsOf(width, height) == (0 .. width - 1) \X (0 .. height - 1)

output_create(width, height) ==
    [x |-> 0, y |-> 0, width |-> width, height |-> height,
     framebuffer |-> [p \in PixelsOf(width, height) |-> Black0],
     damage |-> {}]

\* pixman_image_create_solid_fill(&bg_color): the image, NULL when its
\* allocation fails
pixman_image_create_solid_fill(color, alloc_ok) ==
    IF alloc_ok THEN [solid |-> color_to_pixel(color)] ELSE NULL

\* pixman_image_composite32(PIXMAN_OP_SRC, bg, ...) over the whole output,
\* bg an image
FillBackground(output, bg) ==
    [p \in DOMAIN output.framebuffer |-> bg.solid]

\* pixman_image_composite32(PIXMAN_OP_OVER, surface->image, ...) at
\* (surface->x, surface->y), surface->width by surface->height, clipped to the
\* image and to the framebuffer
CompositeSurface(fb, surface) ==
    [p \in DOMAIN fb |->
        LET sx == p[1] - surface.x
            sy == p[2] - surface.y
        IN  IF /\ 0 <= sx /\ sx < surface.width /\ sx < surface.image.width
               /\ 0 <= sy /\ sy < surface.height /\ sy < surface.image.height
            THEN Over(ImagePixel(surface.image), fb[p])
            ELSE fb[p]]

RECURSIVE PaintSurfaces(_, _)
\* wl_list_for_each(surface, surfaces, link): head of the list first
PaintSurfaces(fb, list) ==
    IF list = << >> THEN fb
    ELSE IF Head(list).image = NULL THEN PaintSurfaces(fb, Tail(list))
    ELSE PaintSurfaces(CompositeSurface(fb, Head(list)), Tail(list))

\* the framebuffer after renderer_repaint_output(output, surfaces).  The
\* solid fill is used unchecked: when it is NULL the first composite reads
\* through the null pointer, the process is killed and there is no
\* framebuffer after the call (NULL).
renderer_repaint_output(output, list, alloc_ok) ==
    LET bg == pixman_image_create_solid_fill(bg_color, alloc_ok)
    IN  IF bg = NULL THEN NULL
        ELSE PaintSurfaces(FillBackground(output, bg), list)

\* output_repaint without its frame counter: render, then clear the damage;
\* the output is as it was when the renderer kills the process
output_repaint(output, list, alloc_ok) ==
    IF ~alloc_ok THEN output
    ELSE [output EXCEPT
            !.framebuffer = renderer_repaint_output(output, list, alloc_ok),
            !.damage = {}]

-----------------------------------------------------------------------------
(* Helpers over the lists and resource tables.                             *)

Range(seq) == {seq[i] : i \in 1 .. Len(seq)}

\* a removal that unlinks the head of the list whatever the element
RemoveId_head(seq, id) == Tail(seq)

RECURSIVE RemoveId(_, _)
\* wl_list_remove of the element with this id; the others keep their order
RemoveId(seq, id) ==
    IF seq = << >> THEN << >>
    ELSE IF Head(seq).id = id THEN Tail(seq)
    ELSE << Head(seq) >> \o RemoveId(Tail(seq), id)

RECURSIVE RemoveValue(_, _)
RemoveValue(seq, v) ==
    IF seq = << >> THEN << >>
    ELSE IF Head(seq) = v THEN Tail(seq)
    ELSE << Head(seq) >> \o RemoveValue(Tail(seq), v)

\* the object id a client allocates: the lowest one not in use
FreeId(used, max) == CHOOSE i \in 1 .. max : i \notin used /\ \A j \in 1 .. i - 1 : j \in used

SurfaceIds == {s.id : s \in Range(surfaces)}
SurfaceById(id) == CHOOSE s \in Range(surfaces) : s.id = id
SurfacesOf(c) == {s \in Range(surfaces) : s.client = c}

Restrict(f, keep) == [k \in keep |-> f[k]]

\* the record of the request dispatched last
Request(op, c, args, result) ==
    [op |-> op, client |-> c, args |-> args, result |-> result]

\* an error that is posted to every connection
PostError_all(c) == [d \in AllClients |-> TRUE]

\* wl_resource_post_error / wl_client_post_no_memory: the client is in error;
\* libwayland destroys it when the handler returns, before it dispatches
\* another request of any client
PostError(c) == [client_err EXCEPT ![c] = TRUE]

\* wl_display_run dispatches: its loop runs, or a signal has cleared the run
\* flag and the events of the dispatch in progress are still handled
Running == {"run", "stopping"}

\* a request of client c can be dispatched: wl_display_run dispatches and no
\* client waits for its destruction
Dispatching(c) == pc \in Running /\ \A d \in AllClients : ~client_err[d]

-----------------------------------------------------------------------------
(* compositor.c: the surface registry.                                     *)

\* calloc(1, sizeof(struct client_security))
ZeroSec(id) ==
    [id |-> id, pid |-> 0, uid |-> 0, gid |-> 0, is_vm |-> FALSE,
     surface_count |-> 0]

\* calloc(1, sizeof(struct galium_surface)) with the fields set on creation
NewSurface(id, c, sec_id) ==
    [id |-> id, client |-> c, x |-> 0, y |-> 0, width |-> 0, height |-> 0,
     buffer_resource |-> NoObject, image |-> NULL, damage |-> {},
     client_sec |-> sec_id]

\* wl_list_insert(&compositor->surfaces, &surface->link): at the head
InsertSurface(list, surface) == << surface >> \o list

\* wl_list_insert(&compositor->sec_ctx->clients, &surface->client_sec->link)
InsertSec(list, sec) == << sec >> \o list

\* oom names the allocation that fails, if any
compositor_create_surface(c, oom, max_surfaces, max_entries) ==
    /\ Dispatching(c)
    /\ Len(surfaces) < max_surfaces
    /\ Len(sec_clients) < max_entries
    /\ IF oom \in {"surface", "resource"}
       THEN /\ client_err' = PostError(c)
            /\ last' = Request("create_surface", c, << >>, WL_DISPLAY_ERROR_NO_MEMORY)
            /\ UNCHANGED surface_vars
       ELSE LET id     == FreeId(SurfaceIds, max_surfaces)
                sec_id == IF oom = "client_sec" THEN NoObject ELSE Len(sec_clients) + 1
                sec    == validate_client_credentials(c, ZeroSec(sec_id)).sec
            IN  /\ sec_clients' = IF sec_id = NoObject THEN sec_clients
                                  ELSE InsertSec(sec_clients, sec)
                /\ surfaces' = InsertSurface(surfaces, NewSurface(id, c, sec_id))
                /\ created' = Append(created, id)
                /\ damage_reqs' = [k \in DOMAIN damage_reqs \cup {id} |->
                                     IF k = id THEN << >> ELSE damage_reqs[k]]
                /\ last' = Request("create_surface", c, << id >>, NoError)
                /\ committed' = [k \in DOMAIN committed \cup {id} |->
                                   IF k = id THEN NoObject ELSE committed[k]]
                /\ UNCHANGED client_err
    /\ UNCHANGED << main_vars, callbacks, output_vars, shm_vars >>

\* the surface list after surface_resource_destroy of one surface
surface_resource_destroy(list, id) == RemoveId(list, id)

\* wl_surface.destroy
surface_destroy(c, id) ==
    /\ Dispatching(c)
    /\ id \in SurfaceIds
    /\ SurfaceById(id).client = c
    /\ surfaces' = surface_resource_destroy(surfaces, id)
    /\ created' = RemoveValue(created, id)
    /\ damage_reqs' = Restrict(damage_reqs, DOMAIN damage_reqs \ {id})
    /\ committed' = Restrict(committed, DOMAIN committed \ {id})
    /\ last' = Request("surface_destroy", c, << id >>, NoError)
    /\ UNCHANGED << main_vars, callbacks, sec_clients, output_vars, shm_vars, client_err >>

\* the surface after surface_attach(buffer).  A buffer of this server is no
\* wl_shm buffer of libwayland, so shm_buffer_get_image returns before it
\* asks pixman for anything and no allocation can fail.
AttachTo(surface, buffer_id) ==
    IF surface.client_sec = NoObject THEN surface
    ELSE LET s1 == [surface EXCEPT !.buffer_resource = buffer_id]
         IN  IF buffer_id = NoObject THEN s1
             ELSE LET image == shm_buffer_get_image(BufferResource(buffer_id), TRUE)
                  IN  IF image = NULL THEN [s1 EXCEPT !.image = NULL]
                      ELSE [s1 EXCEPT !.image = image,
                                      !.width = image.width,
                                      !.height = image.height]

ReplaceSurface(list, s) ==
    [i \in 1 .. Len(list) |-> IF list[i].id = s.id THEN s ELSE list[i]]

\* an attach that also counts a frame
surface_attach_counting(c, id, buffer_id, x, y) ==
    /\ Dispatching(c)
    /\ id \in SurfaceIds
    /\ SurfaceById(id).client = c
    /\ buffer_id = NoObject \/ \E b \in buffers : b.id = buffer_id /\ b.client = c
    /\ surfaces' = ReplaceSurface(surfaces, AttachTo(SurfaceById(id), buffer_id))
    /\ frame_count' = frame_count + 1
    /\ last' = Request("attach", c, << id, buffer_id, x, y >>, NoError)
    /\ UNCHANGED << main_vars, callbacks, created, damage_reqs, committed, sec_clients,
                    outputs, snapshots, shm_vars, client_err >>

\* wl_surface.attach(buffer, x, y); buffer_id is null or a live buffer of c
surface_attach(c, id, buffer_id, x, y) ==
    /\ Dispatching(c)
    /\ id \in SurfaceIds
    /\ SurfaceById(id).client = c
    /\ buffer_id = NoObject \/ \E b \in buffers : b.id = buffer_id /\ b.client = c
    /\ surfaces' = ReplaceSurface(surfaces, AttachTo(SurfaceById(id), buffer_id))
    /\ last' = Request("attach", c, << id, buffer_id, x, y >>, NoError)
    /\ UNCHANGED << main_vars, callbacks, created, damage_reqs, committed, sec_clients, output_vars,
                    shm_vars, client_err >>

\* the pixels of a rectangle
RectPixels(x, y, width, height) ==
    (x .. x + width - 1) \X (y .. y + height - 1)

\* a damage request that replaces the region in place of extending it
pixman_region32_replace_rect(region, x, y, width, height) ==
    (x .. x + U32Val(width) - 1) \X (y .. y + U32Val(height) - 1)

\* pixman_region32_union_rect(dest, source, x, y, width, height)
pixman_region32_union_rect(region, x, y, width, height) ==
    region \cup RectPixels(x, y, U32Val(width), U32Val(height))

\* a damage handler that goes on to the union after a failed validation
DamageTo_unchecked(surface, x, y, width, height) ==
    [surface EXCEPT !.damage =
        pixman_region32_union_rect(surface.damage, x, y,
                                   ToU32(width), ToU32(height))]

\* the surface after surface_damage(x, y, width, height), int32_t arguments
DamageTo(surface, x, y, width, height) ==
    IF ~validate_geometry(x, y, ToU32(width), ToU32(height)) THEN surface
    ELSE [surface EXCEPT !.damage =
            pixman_region32_union_rect(surface.damage, x, y,
                                       ToU32(width), ToU32(height))]

\* wl_surface.damage(x, y, width, height)
surface_damage(c, id, x, y, width, height) ==
    LET ok == validate_geometry(x, y, ToU32(width), ToU32(height))
    IN  /\ Dispatching(c)
        /\ id \in SurfaceIds
        /\ SurfaceById(id).client = c
        /\ ok => Len(damage_reqs[id]) < MaxRects
        /\ surfaces' = ReplaceSurface(surfaces,
                          DamageTo(SurfaceById(id), x, y, width, height))
        /\ damage_reqs' = IF ok
                          THEN [damage_reqs EXCEPT
                                  ![id] = Append(@, << x, y, width, height >>)]
                          ELSE damage_reqs
        /\ last' = Request("damage", c, << id, x, y, width, height >>,
                           IF ok THEN NoError ELSE "rejected")
        /\ UNCHANGED << main_vars, callbacks, created, committed, sec_clients, output_vars, shm_vars,
                        client_err >>

RECURSIVE RepaintAll(_, _)
\* wl_list_for_each(output, &compositor->outputs, link) output_repaint(output)
\* over outputs whose repaint returns
RepaintAll(outs, list) ==
    IF outs = << >> THEN << >>
    ELSE << output_repaint(Head(outs), list, TRUE) >>
             \o RepaintAll(Tail(outs), list)

\* the number of outputs a commit repaints before the renderer kills the
\* process: all of them when every solid fill is allocated, else those
\* before the first of `unfilled`, the outputs whose fill is not
Repainted(outs, unfilled) ==
    IF unfilled = {} THEN Len(outs)
    ELSE (CHOOSE i \in unfilled : \A j \in unfilled : i <= j) - 1

\* the outputs for which pixman_image_create_solid_fill gets no memory
UnfilledOutputs == SUBSET (1 .. Len(outputs))

\* what open() and write() do while a snapshot is saved
SaveOutcomes == {"saved", "open_failed", "write_failed"}

\* every snapshot of a commit is saved
AllSaved == [i \in 1 .. Len(outputs) |-> "saved"]

\* the file output_save_framebuffer leaves under the name it is given: none
\* when open() fails, a truncated one when a write() fails, else the red,
\* green and blue bytes of every pixel
output_save_framebuffer(output, io) ==
    IF io = "open_failed" THEN [written |-> "none", rgb |-> << >>]
    ELSE IF io = "write_failed" THEN [written |-> "partial", rgb |-> << >>]
    ELSE [written |-> "complete",
          rgb |-> [p \in DOMAIN output.framebuffer |->
                     << output.framebuffer[p][2], output.framebuffer[p][3],
                        output.framebuffer[p][4] >>]]

\* a frame counter that advances only after a saved snapshot
NextFrameCount_on_success(count, io) ==
    IF io = "saved" THEN count + 1 ELSE count

\* frame_count++ after output_save_framebuffer, which returns nothing
NextFrameCount(count, io) == count + 1

RECURSIVE FrameCountAfter(_, _)
\* the frame counter after one output_repaint per outcome of saves
FrameCountAfter(count, saves) ==
    IF saves = << >> THEN count
    ELSE FrameCountAfter(NextFrameCount(count, Head(saves)), Tail(saves))

RECURSIVE SnapshotsOf(_, _, _)
\* the snapshots of the repainted outputs: output_repaint names the file
\* frame_%03d.ppm after the frame counter it reads before the save
SnapshotsOf(outs, count, saves) ==
    IF outs = << >> THEN << >>
    ELSE << [index |-> count,
             file |-> output_save_framebuffer(Head(outs), Head(saves))] >>
         \o SnapshotsOf(Tail(outs), NextFrameCount(count, Head(saves)),
                        Tail(saves))

\* the wl_callback resource wl_resource_create makes for the new id `callback`
\* of client c; no implementation and no user data are set on it.  `done` is
\* the wl_callback.done event and `requested_at` the frame counter at the
\* request, both history.
NewCallback(callback, c, count) ==
    [id |-> callback, client |-> c, done |-> FALSE, requested_at |-> count]

\* the server's object ids of client c that wl_surface.frame made
CallbackIds(c) == {cb.id : cb \in {x \in callbacks : x.client = c}}

\* a frame request that answers at once: the callback gets its done event
surface_frame_done_at_once(c, id, callback, oom) ==
    /\ Dispatching(c)
    /\ id \in SurfaceIds
    /\ SurfaceById(id).client = c
    /\ callback \notin CallbackIds(c)
    /\ callbacks' = IF oom THEN callbacks
                    ELSE callbacks
                            \cup {[NewCallback(callback, c, frame_count)
                                     EXCEPT !.done = TRUE]}
    /\ last' = Request("frame", c, << id, callback >>, NoError)
    /\ UNCHANGED << main_vars, surface_vars, output_vars, shm_vars,
                    client_err >>

\* wl_surface.frame(callback): the resource is created and dropped; when
\* wl_resource_create fails (oom) nothing is made and no error is posted
surface_frame(c, id, callback, oom) ==
    /\ Dispatching(c)
    /\ id \in SurfaceIds
    /\ SurfaceById(id).client = c
    /\ callback \notin CallbackIds(c)
    /\ callbacks' = IF oom THEN callbacks
                    ELSE callbacks
                            \cup {NewCallback(callback, c, frame_count)}
    /\ last' = Request("frame", c, << id, callback >>, NoError)
    /\ UNCHANGED << main_vars, surface_vars, output_vars, shm_vars,
                    client_err >>

\* the wl_surface requests of versions 1 to 4 that surface_implementation
\* has no function for: set_opaque_region, set_input_region,
\* set_buffer_transform, set_buffer_scale, damage_buffer
UnimplementedSurfaceOpcodes == {4, 5, 7, 8, 9}

\* the number of requests of libwayland's wl_surface interface: opcodes 0 to
\* 10, the last one (offset) of version 5
WlSurfaceMethodCount == 11

\* the opcodes past the eleven entries of surface_implementation: offset,
\* which no surface of this server is new enough for, and an opcode the
\* interface does not have
NewerSurfaceOpcodes == {10, 11}

\* the opcodes a client can send that surface_implementation has no function
\* for
SurfaceOpcodesWithoutFunction ==
    UnimplementedSurfaceOpcodes \cup NewerSurfaceOpcodes

\* the version of wl_surface that brought in the request
OpcodeSince(opcode) ==
    IF opcode = 7 THEN 2
    ELSE IF opcode = 8 THEN 3
    ELSE IF opcode = 9 THEN 4
    ELSE IF opcode = 10 THEN 5
    ELSE 1

\* the versions a client may bind the wl_compositor global at; its surfaces
\* have the version of the binding
CompositorVersions == 1 .. 4

\* a wl_surface request with no function in surface_implementation, on a
\* surface of `version`: libwayland refuses an opcode the interface does not
\* have and a request newer than the version with invalid_method, which ends
\* the connection, and aborts the server on the NULL listener of any other
\* opcode
surface_unimplemented(c, id, opcode, version) ==
    LET refused == \/ opcode >= WlSurfaceMethodCount
                   \/ version < OpcodeSince(opcode)
    IN  /\ Dispatching(c)
        /\ id \in SurfaceIds
        /\ SurfaceById(id).client = c
        /\ opcode \in SurfaceOpcodesWithoutFunction
        /\ version \in CompositorVersions
        /\ pc' = IF refused THEN pc ELSE "exit"
        /\ exit_status' = IF refused THEN exit_status ELSE << -6 >>
        /\ client_err' = IF refused THEN PostError(c) ELSE client_err
        /\ last' = Request("surface_request", c, << id, opcode, version >>,
                           IF refused THEN WL_DISPLAY_ERROR_INVALID_METHOD
                           ELSE "killed")
        /\ UNCHANGED << live, sec_ctx, released, random_call, callbacks,
                        surface_vars, output_vars, shm_vars >>

\* wl_surface.commit; saves: per output, what saving its snapshot does;
\* unfilled: the outputs whose renderer gets no solid fill.  The outputs are
\* repainted in turn; a renderer without its fill ends the process by SIGSEGV,
\* the outputs from that one on left as they were.
surface_commit(c, id, saves, unfilled) ==
    LET n      == Repainted(outputs, unfilled)
        killed == n < Len(outputs)
        done   == RepaintAll(SubSeq(outputs, 1, n), surfaces)
        saved  == SubSeq(saves, 1, n)
    IN  /\ Dispatching(c)
        /\ id \in SurfaceIds
        /\ SurfaceById(id).client = c
        /\ frame_count + Len(outputs) <= MaxFrames
        /\ Len(snapshots) + Len(outputs) <= MaxFrames
        /\ outputs' = done \o SubSeq(outputs, n + 1, Len(outputs))
        /\ frame_count' = FrameCountAfter(frame_count, saved)
        /\ snapshots' = snapshots \o SnapshotsOf(done, frame_count, saved)
        /\ committed' = [committed EXCEPT
                           ![id] = SurfaceById(id).buffer_resource]
        /\ pc' = IF killed THEN "exit" ELSE pc
        /\ exit_status' = IF killed THEN << -11 >> ELSE exit_status
        /\ last' = Request("commit", c, << id >>,
                           IF killed THEN "killed" ELSE NoError)
        /\ UNCHANGED << live, sec_ctx, released, random_call, callbacks,
                        surfaces, created, damage_reqs, sec_clients, shm_vars,
                        client_err >>

-----------------------------------------------------------------------------
(* shm.c: pools and buffers.                                               *)

PoolIds == {p.id : p \in pools}
BufferIds == {b.id : b \in buffers}
PoolById(id) == CHOOSE p \in pools : p.id = id

\* mmap(NULL, size, PROT_READ | PROT_WRITE, MAP_SHARED, fd, 0) != MAP_FAILED:
\* a length of zero, or a negative int32_t turned into a huge size_t, always
\* fails; otherwise the descriptor decides (map_ok)
MmapSucceeds(size, map_ok) == size > 0 /\ map_ok

\* a close that leaves the descriptor open
close_fd_leaked(st, fd) == st

\* close(fd): the descriptor table and the count of failed closes
close_fd(st, fd) ==
    IF fd \in st.open_fds
    THEN [st EXCEPT !.open_fds = st.open_fds \ {fd}]
    ELSE [st EXCEPT !.bad_close = st.bad_close + 1]

\* munmap(data, size)
munmap_region(st, data) == [st EXCEPT !.mapped = st.mapped \ {data}]

\* the shared-memory state as one record, for the handlers that change it
ShmState == [pools |-> pools, open_fds |-> open_fds, mapped |-> mapped,
             bad_close |-> bad_close, error |-> NoError]

\* shm_create_pool whose failed pool-record allocation runs the destructor of
\* the pool resource after its own close
CreatePool_destructor_runs(st, c, id, fd, size, map_ok, oom) ==
    IF ~MmapSucceeds(size, map_ok)
    THEN [close_fd(st, fd) EXCEPT !.error = WL_SHM_ERROR_INVALID_FD]
    ELSE LET st1 == [st EXCEPT !.mapped = st.mapped \cup {fd}]
         IN  IF oom = "resource"
             THEN [close_fd(munmap_region(st1, fd), fd)
                      EXCEPT !.error = WL_DISPLAY_ERROR_NO_MEMORY]
             ELSE IF oom = "pool_data"
             THEN [close_fd(close_fd(munmap_region(st1, fd), fd), fd)
                      EXCEPT !.error = WL_DISPLAY_ERROR_NO_MEMORY]
             ELSE [st1 EXCEPT !.pools = st1.pools \cup
                      {[id |-> id, client |-> c, data |-> fd,
                        size |-> size, fd |-> fd]}]

\* shm_create_pool on descriptor fd, already received and open: the state it
\* leaves and the error it posts.  oom names the allocation that fails.
CreatePool(st, c, id, fd, size, map_ok, oom) ==
    IF ~MmapSucceeds(size, map_ok)
    THEN [close_fd(st, fd) EXCEPT !.error = WL_SHM_ERROR_INVALID_FD]
    ELSE LET st1 == [st EXCEPT !.mapped = st.mapped \cup {fd}]
         IN  IF oom = "resource"
             THEN [close_fd(munmap_region(st1, fd), fd)
                      EXCEPT !.error = WL_DISPLAY_ERROR_NO_MEMORY]
             ELSE IF oom = "pool_data"
             THEN [close_fd(munmap_region(st1, fd), fd)
                      EXCEPT !.error = WL_DISPLAY_ERROR_NO_MEMORY]
             ELSE [st1 EXCEPT !.pools = st1.pools \cup
                      {[id |-> id, client |-> c, data |-> fd,
                        size |-> size, fd |-> fd]}]

\* wl_shm.create_pool(fd, size)
shm_create_pool(c, size, map_ok, oom, max_pools) ==
    /\ Dispatching(c)
    /\ Cardinality(pools) < max_pools
    /\ Cardinality(open_fds) < MaxFds
    /\ LET fd  == FreeId(open_fds, MaxFds)
           id  == FreeId(PoolIds, max_pools)
           st0 == [ShmState EXCEPT !.open_fds = open_fds \cup {fd}]
           st  == CreatePool(st0, c, id, fd, size, map_ok, oom)
       IN  /\ pools' = st.pools
           /\ open_fds' = st.open_fds
           /\ mapped' = st.mapped
           /\ bad_close' = st.bad_close
           /\ client_err' = IF st.error = NoError THEN client_err ELSE PostError(c)
           /\ last' = Request("create_pool", c, << fd, size, map_ok, oom >>, st.error)
    /\ UNCHANGED << main_vars, callbacks, buffers, surface_vars, output_vars >>

\* a pool destructor that closes the descriptor and leaves the region mapped
DestroyPool_still_mapped(st, pool) ==
    LET st2 == IF pool.fd >= 0 THEN close_fd(st, pool.fd) ELSE st
    IN  [st2 EXCEPT !.pools = st2.pools \ {pool}]

\* shm_pool_resource_destroy
DestroyPool(st, pool) ==
    LET st1 == IF pool.data # NoObject THEN munmap_region(st, pool.data) ELSE st
        st2 == IF pool.fd >= 0 THEN close_fd(st1, pool.fd) ELSE st1
    IN  [st2 EXCEPT !.pools = st2.pools \ {pool}]

\* wl_shm_pool.destroy
shm_pool_destroy(c, id) ==
    /\ Dispatching(c)
    /\ id \in PoolIds
    /\ PoolById(id).client = c
    /\ LET st == DestroyPool(ShmState, PoolById(id))
       IN  /\ pools' = st.pools
           /\ open_fds' = st.open_fds
           /\ mapped' = st.mapped
           /\ bad_close' = st.bad_close
    /\ last' = Request("pool_destroy", c, << id >>, NoError)
    /\ UNCHANGED << main_vars, callbacks, buffers, surface_vars, output_vars, client_err >>

\* wl_shm_pool.destroy naming an id that is no longer a resource: the pool
\* was destroyed before.  libwayland finds no resource for the id, calls no
\* handler and no destructor, and posts invalid_object on the display.
stale_pool_destroy(c, id) ==
    /\ Dispatching(c)
    /\ id \notin PoolIds
    /\ client_err' = PostError(c)
    /\ last' = Request("pool_destroy", c, << id >>, WL_DISPLAY_ERROR_INVALID_OBJECT)
    /\ UNCHANGED << main_vars, callbacks, shm_vars, surface_vars, output_vars >>

\* a resize that records the new size in the pool
shm_pool_resize_applied(c, id, size) ==
    /\ Dispatching(c)
    /\ id \in PoolIds
    /\ PoolById(id).client = c
    /\ pools' = (pools \ {PoolById(id)})
                   \cup {[PoolById(id) EXCEPT !.size = size]}
    /\ last' = Request("pool_resize", c, << id, size >>, NoError)
    /\ UNCHANGED << main_vars, callbacks, buffers, open_fds, mapped, bad_close,
                    surface_vars, output_vars, client_err >>

\* wl_shm_pool.resize: a stub
shm_pool_resize(c, id, size) ==
    /\ Dispatching(c)
    /\ id \in PoolIds
    /\ PoolById(id).client = c
    /\ last' = Request("pool_resize", c, << id, size >>, NoError)
    /\ UNCHANGED << main_vars, callbacks, shm_vars, surface_vars, output_vars, client_err >>

SupportedFormat(format) ==
    ~(format # WL_SHM_FORMAT_ARGB8888 /\ format # WL_SHM_FORMAT_XRGB8888)

\* shm_pool_create_buffer with the format tested before the dimensions
CreateBufferError_format_first(width, height, format, oom) ==
    IF format # WL_SHM_FORMAT_ARGB8888 /\ format # WL_SHM_FORMAT_XRGB8888
    THEN WL_SHM_ERROR_INVALID_FORMAT
    ELSE IF ~validate_buffer_size(ToU32(width), ToU32(height))
    THEN WL_SHM_ERROR_INVALID_STRIDE
    ELSE IF oom \in {"buffer", "resource"} THEN WL_DISPLAY_ERROR_NO_MEMORY
    ELSE NoError

\* the error shm_pool_create_buffer posts, NoError when it creates the buffer;
\* width and height arrive as int32_t.  oom names the allocation that fails.
CreateBufferError(width, height, format, oom) ==
    IF ~validate_buffer_size(ToU32(width), ToU32(height))
    THEN WL_SHM_ERROR_INVALID_STRIDE
    ELSE IF ~SupportedFormat(format) THEN WL_SHM_ERROR_INVALID_FORMAT
    ELSE IF oom \in {"buffer", "resource"} THEN WL_DISPLAY_ERROR_NO_MEMORY
    ELSE NoError

\* the wl_buffer resource with its galium_shm_buffer
NewBuffer(id, c, width, height) ==
    LET resource == [implementation |-> "buffer_implementation",
                     shm_buffer |-> NULL]
    IN  [id |-> id, client |-> c, width |-> width, height |-> height,
         implementation |-> resource.implementation,
         shm_buffer |-> wl_shm_buffer_get(resource)]

\* wl_shm_pool.create_buffer(offset, width, height, stride, format)
shm_pool_create_buffer(c, pool_id, offset, width, height, stride, format, oom) ==
    /\ Dispatching(c)
    /\ pool_id \in PoolIds
    /\ PoolById(pool_id).client = c
    /\ Cardinality(buffers) < MaxBuffers
    /\ LET err == CreateBufferError(width, height, format, oom)
           id  == FreeId(BufferIds, MaxBuffers)
       IN  /\ buffers' = IF err = NoError
                         THEN buffers \cup {NewBuffer(id, c, width, height)}
                         ELSE buffers
           /\ client_err' = IF err = NoError THEN client_err ELSE PostError(c)
           /\ last' = Request("create_buffer", c,
                              << pool_id, offset, width, height, stride, format >>,
                              err)
    /\ UNCHANGED << main_vars, callbacks, pools, open_fds, mapped, bad_close, surface_vars, output_vars >>

\* a bind that advertises the alpha format alone
shm_formats_argb_only == << WL_SHM_FORMAT_ARGB8888 >>

\* the wl_shm.format events shm_bind sends, in order
shm_formats == << WL_SHM_FORMAT_ARGB8888, WL_SHM_FORMAT_XRGB8888 >>

\* a client binds the wl_shm global; oom: wl_resource_create fails.  The
\* request record holds the format events sent to the client.
shm_bind(c, oom) ==
    /\ Dispatching(c)
    /\ client_err' = IF oom THEN PostError(c) ELSE client_err
    /\ last' = Request("bind_shm", c, IF oom THEN << >> ELSE shm_formats,
                       IF oom THEN WL_DISPLAY_ERROR_NO_MEMORY ELSE NoError)
    /\ UNCHANGED << main_vars, callbacks, surface_vars, output_vars, shm_vars >>

\* a client binds the wl_compositor global; oom: wl_resource_create fails
\* and the client is sent no_memory
compositor_bind(c, oom) ==
    /\ Dispatching(c)
    /\ client_err' = IF oom THEN PostError(c) ELSE client_err
    /\ last' = Request("bind_compositor", c, << >>,
                       IF oom THEN WL_DISPLAY_ERROR_NO_MEMORY ELSE NoError)
    /\ UNCHANGED << main_vars, callbacks, surface_vars, output_vars, shm_vars >>

\* wl_buffer.destroy: buffer_resource_destroy frees the galium_shm_buffer
buffer_destroy(c, id) ==
    /\ Dispatching(c)
    /\ \E b \in buffers : b.id = id /\ b.client = c
    /\ buffers' = {b \in buffers : b.id # id}
    /\ last' = Request("buffer_destroy", c, << id >>, NoError)
    /\ UNCHANGED << main_vars, callbacks, pools, open_fds, mapped, bad_close, surface_vars,
                    output_vars, client_err >>

-----------------------------------------------------------------------------
(* Connection teardown: libwayland destroys every resource of the client,  *)
(* after a posted error or when the client disconnects.                    *)

RECURSIVE DestroyPools(_, _)
DestroyPools(st, ps) ==
    IF ps = {} THEN st
    ELSE LET p == CHOOSE q \in ps : TRUE
         IN  DestroyPools(DestroyPool(st, p), ps \ {p})

RECURSIVE DestroySurfaces(_, _)
DestroySurfaces(list, ids) ==
    IF ids = {} THEN list
    ELSE LET id == CHOOSE i \in ids : TRUE
         IN  DestroySurfaces(surface_resource_destroy(list, id), ids \ {id})

client_destroy(c) ==
    LET ids == {s.id : s \in SurfacesOf(c)}
        st  == DestroyPools(ShmState, {p \in pools : p.client = c})
    IN  /\ pc \in Running
        /\ \/ client_err[c]
           \/ /\ Dispatching(c)
              /\ \/ SurfacesOf(c) # {}
                 \/ \E r \in pools \cup buffers \cup callbacks : r.client = c
        /\ surfaces' = DestroySurfaces(surfaces, ids)
        /\ created' = SelectSeq(created, LAMBDA i : i \notin ids)
        /\ damage_reqs' = Restrict(damage_reqs, DOMAIN damage_reqs \ ids)
        /\ committed' = Restrict(committed, DOMAIN committed \ ids)
        /\ pools' = st.pools
        /\ open_fds' = st.open_fds
        /\ mapped' = st.mapped
        /\ bad_close' = st.bad_close
        /\ buffers' = {b \in buffers : b.client # c}
        /\ client_err' = [client_err EXCEPT ![c] = FALSE]
        /\ callbacks' = {cb \in callbacks : cb.client # c}
        /\ last' = Request("client_destroy", c, << >>, NoError)
        /\ UNCHANGED << main_vars, sec_clients, output_vars >>

-----------------------------------------------------------------------------
(* security.c: the random source, the security context and its release.    *)

\* the credentials of the process: real, effective and saved ids, the
\* supplementary groups, the effective and the permitted capabilities among
\* CAP_SETUID and CAP_SETGID, and the securebit SECBIT_NO_SETUID_FIXUP
ProcessCred(ruid, euid, suid, gid, groups, effective, permitted, no_fixup) ==
    [ruid |-> ruid, euid |-> euid, suid |-> suid,
     rgid |-> gid, egid |-> gid, sgid |-> gid, groups |-> groups,
     effective |-> effective, permitted |-> permitted,
     no_setuid_fixup |-> no_fixup]

\* what a system call answers: 0 (ok) or -1, and the credentials it leaves
SysResult(ok, cred) == [ok |-> ok, cred |-> cred]

\* setgroups(0, NULL): needs CAP_SETGID; `fault` makes the call fail
sys_setgroups_none(cred, fault) ==
    IF fault \/ "CAP_SETGID" \notin cred.effective THEN SysResult(FALSE, cred)
    ELSE SysResult(TRUE, [cred EXCEPT !.groups = {}])

\* setgid(gid): all three ids with CAP_SETGID, else the effective id alone
\* and only to the real or the saved id
sys_setgid(cred, gid, fault) ==
    IF fault THEN SysResult(FALSE, cred)
    ELSE IF "CAP_SETGID" \in cred.effective
    THEN SysResult(TRUE, [cred EXCEPT !.rgid = gid, !.egid = gid, !.sgid = gid])
    ELSE IF gid \in {cred.rgid, cred.sgid}
    THEN SysResult(TRUE, [cred EXCEPT !.egid = gid])
    ELSE SysResult(FALSE, cred)

\* the capabilities after the uids changed from those of `old` to those of
\* cred, unless the securebit keeps them as they are: all are lost when a
\* uid was 0 and none is any more (SECBIT_KEEP_CAPS is clear after execve),
\* the effective ones are lost when the effective uid leaves 0, and they
\* become the permitted ones when the effective uid becomes 0
CapFixup(old, cred) ==
    IF cred.no_setuid_fixup THEN cred
    ELSE LET c1 == IF /\ 0 \in {old.ruid, old.euid, old.suid}
                      /\ 0 \notin {cred.ruid, cred.euid, cred.suid}
                   THEN [cred EXCEPT !.permitted = {}, !.effective = {}]
                   ELSE cred
             c2 == IF old.euid = 0 /\ cred.euid # 0
                   THEN [c1 EXCEPT !.effective = {}]
                   ELSE c1
         IN  IF old.euid # 0 /\ cred.euid = 0
             THEN [c2 EXCEPT !.effective = c2.permitted]
             ELSE c2

\* setuid(uid): all three ids with CAP_SETUID, else the effective id alone
\* and only to the real or the saved id
sys_setuid(cred, uid, fault) ==
    IF fault THEN SysResult(FALSE, cred)
    ELSE IF "CAP_SETUID" \in cred.effective
    THEN SysResult(TRUE, CapFixup(cred, [cred EXCEPT !.ruid = uid, !.euid = uid,
                                                     !.suid = uid]))
    ELSE IF uid \in {cred.ruid, cred.suid}
    THEN SysResult(TRUE, CapFixup(cred, [cred EXCEPT !.euid = uid]))
    ELSE SysResult(FALSE, cred)

\* what a call of drop_privileges leaves: the credentials, whether it called
\* exit(1) instead of returning, and the system calls it made, in order
Dropped(cred, exited, calls) ==
    [cred |-> cred, exited |-> exited,
     status |-> IF exited THEN << 1 >> ELSE << >>, calls |-> calls]

\* drop_privileges without the test that setuid(0) fails afterwards
drop_privileges_untested(cred, fault) ==
    IF cred.euid # 0 THEN Dropped(cred, FALSE, << >>)
    ELSE LET uid == cred.ruid
             gid == cred.rgid
             g   == sys_setgroups_none(cred, fault = "setgroups")
             s   == sys_setgid(g.cred, gid, fault = "setgid")
             u   == sys_setuid(s.cred, uid, fault = "setuid")
             c1  == << << "setgroups", 0 >> >>
             c2  == Append(c1, << "setgid", gid >>)
             c3  == Append(c2, << "setuid", uid >>)
         IN  IF ~g.ok THEN Dropped(g.cred, TRUE, c1)
             ELSE IF ~s.ok THEN Dropped(s.cred, TRUE, c2)
             ELSE IF ~u.ok THEN Dropped(u.cred, TRUE, c3)
             ELSE Dropped(u.cred, FALSE, c3)

\* drop_privileges(): nothing unless the effective uid is 0; else setgroups,
\* setgid and setuid to the real ids, exit(1) when one fails, and exit(1)
\* when setuid(0) succeeds after them.  `fault` names a call that fails for a
\* reason of its own.
drop_privileges(cred, fault) ==
    IF cred.euid # 0 THEN Dropped(cred, FALSE, << >>)
    ELSE LET uid == cred.ruid
             gid == cred.rgid
             g   == sys_setgroups_none(cred, fault = "setgroups")
             s   == sys_setgid(g.cred, gid, fault = "setgid")
             u   == sys_setuid(s.cred, uid, fault = "setuid")
             r   == sys_setuid(u.cred, 0, FALSE)
             c1  == << << "setgroups", 0 >> >>
             c2  == Append(c1, << "setgid", gid >>)
             c3  == Append(c2, << "setuid", uid >>)
             c4  == Append(c3, << "setuid", 0 >>)
         IN  IF ~g.ok THEN Dropped(g.cred, TRUE, c1)
             ELSE IF ~s.ok THEN Dropped(s.cred, TRUE, c2)
             ELSE IF ~u.ok THEN Dropped(u.cred, TRUE, c3)
             ELSE IF r.ok THEN Dropped(r.cred, TRUE, c4)
             ELSE Dropped(r.cred, FALSE, c4)

\* main() step 1: drop_privileges is called when geteuid() is 0
main_drop_privileges(cred, fault) ==
    IF cred.euid = 0 THEN drop_privileges(cred, fault)
    ELSE Dropped(cred, FALSE, << >>)

\* sizeof(ctx->session_id), a uint64_t
SessionIdBytes == 8

\* what one read() returns: n bytes, or -1 with errno set
ReadResult(n, errno) == [n |-> n, errno |-> errno]

\* what the reads of a descriptor return, for ever: the results of `prefix`,
\* then those of `cycle` over and over
ReadSource(prefix, cycle) == [prefix |-> prefix, cycle |-> cycle]

\* the result of the read() at position pos of a source
SourceAt(source, pos) == (source.prefix \o source.cycle)[pos]

\* the position after pos
SourceNext(source, pos) ==
    IF pos < Len(source.prefix) + Len(source.cycle) THEN pos + 1
    ELSE Len(source.prefix) + 1

\* read(fd, buf + total, len - total) on a source that holds r: at most the
\* bytes asked for
ReadAtMost(r, asked) ==
    IF r.n > asked THEN ReadResult(asked, r.errno) ELSE r

\* no call of secure_random_bytes is in progress
RandomIdle ==
    [pc |-> "idle", len |-> 0, source |-> ReadSource(<< >>, << >>), pos |-> 1,
     total |-> 0, errno |-> "none", fd_open |-> FALSE, ret |-> << >>]

\* one test of `total < len` in secure_random_bytes with what follows it: the
\* close and return 0, or one read() and the handling of its result.  A read
\* that fails sets errno, any other leaves it as it was.
random_iteration(call) ==
    IF ~(call.total < call.len)
    THEN [call EXCEPT !.pc = "returned", !.fd_open = FALSE, !.ret = << 0 >>]
    ELSE LET r == ReadAtMost(SourceAt(call.source, call.pos),
                             call.len - call.total)
             e == IF r.n < 0 THEN r.errno ELSE call.errno
             c == [call EXCEPT !.errno = e,
                               !.pos = SourceNext(call.source, call.pos)]
         IN  IF r.n <= 0
             THEN IF e = "EINTR" THEN c
                  ELSE [c EXCEPT !.pc = "returned", !.fd_open = FALSE,
                                 !.ret = << -1 >>]
             ELSE [c EXCEPT !.total = call.total + r.n]

\* secure_random_bytes(buf, len) after its open("/dev/urandom"): an open that
\* succeeds leaves errno as the caller left it, one that fails sets it and
\* the function returns -1
RandomEntered(len, open_ok, source, errno) ==
    IF ~open_ok
    THEN [RandomIdle EXCEPT !.pc = "returned", !.len = len,
                            !.source = source, !.errno = "ENOENT",
                            !.ret = << -1 >>]
    ELSE [RandomIdle EXCEPT !.pc = "loop", !.len = len, !.source = source,
                            !.errno = errno, !.fd_open = TRUE]

\* secure_random_bytes(buf, len) is entered
random_open(len, open_ok, source, errno) ==
    /\ random_call.pc = "idle"
    /\ random_call' = RandomEntered(len, open_ok, source, errno)
    /\ last' = Request("secure_random_bytes", NoObject,
                       << len, open_ok, source, errno >>, NoError)
    /\ UNCHANGED << pc, live, exit_status, sec_ctx, released, callbacks,
                    surface_vars,
                    output_vars, shm_vars, client_err >>

\* the loop of secure_random_bytes, one iteration
random_loop ==
    /\ random_call.pc = "loop"
    /\ random_call' = random_iteration(random_call)
    /\ UNCHANGED << pc, live, exit_status, sec_ctx, released, callbacks,
                    surface_vars,
                    output_vars, shm_vars, client_err, last >>

\* iterations after which a call that has not returned never will: every
\* iteration returns, adds a byte or more to total, or reads again with errno
\* EINTR, and more such reads in a row than the source has positions repeat
\* one with the same total
RandomFuel(len, source) ==
    (len + 1) * (Len(source.prefix) + Len(source.cycle) + 1)

RECURSIVE RandomRun(_, _)
\* the loop of secure_random_bytes run to its return; a call that never
\* returns is left in the loop
RandomRun(call, fuel) ==
    IF call.pc = "returned" \/ fuel = 0 THEN call
    ELSE RandomRun(random_iteration(call), fuel - 1)

\* secure_random_bytes(buf, len) on a descriptor that reads as `source` does,
\* called with `errno` in errno: the value returned (none when the loop never
\* ends), the number of bytes of buf filled and whether /dev/urandom is left
\* open
secure_random_bytes(len, open_ok, source, errno) ==
    LET call == RandomRun(RandomEntered(len, open_ok, source, errno),
                          RandomFuel(len, source))
    IN  [ret |-> call.ret, filled |-> call.total, fd_open |-> call.fd_open]

\* the context and the registry of a successful security_context_create
NewContext(filled) ==
    [session_id |-> [i \in 1 .. SessionIdBytes |->
                        IF i <= filled THEN "random" ELSE "zero"],
     locked |-> FALSE]

\* security_context_create(): the context returned (NULL on failure), its
\* client registry and the resources left allocated; it does not return when
\* secure_random_bytes does not, and then holds the context it allocated
security_context_create(calloc_ok, open_ok, source, errno) ==
    IF ~calloc_ok
    THEN [returns |-> TRUE, ctx |-> NULL, clients |-> << >>, live |-> {}]
    ELSE LET rnd == secure_random_bytes(SessionIdBytes, open_ok, source, errno)
             fds == IF rnd.fd_open THEN {"urandom_fd"} ELSE {}
         IN  IF rnd.ret = << >>
             THEN [returns |-> FALSE, ctx |-> NULL, clients |-> << >>,
                   live |-> {"sec_ctx"} \cup fds]
             ELSE IF rnd.ret # << 0 >>
             THEN [returns |-> TRUE, ctx |-> NULL, clients |-> << >>,
                   live |-> fds]
             ELSE [returns |-> TRUE, ctx |-> NewContext(rnd.filled),
                   clients |-> << >>, live |-> {"sec_ctx"} \cup fds]

\* one memory operation on an object
MemOp(op, kind, id) == [op |-> op, kind |-> kind, id |-> id]

\* secure_free that frees without overwriting
secure_free_unzeroed(log, kind, id) ==
    log \o << MemOp("munlock", kind, id), MemOp("free", kind, id) >>

\* secure_free(ptr, size) of a non-null ptr: secure_zero, munlock, free
secure_free(log, kind, id) ==
    log \o << MemOp("zero", kind, id), MemOp("munlock", kind, id),
              MemOp("free", kind, id) >>

RECURSIVE FreeClients(_, _)
\* wl_list_for_each_safe(client, tmp, &ctx->clients, link): wl_list_remove
\* and secure_free of each entry, head first
FreeClients(log, clients) ==
    IF clients = << >> THEN log
    ELSE FreeClients(
             secure_free(log \o << MemOp("remove", "client_security",
                                         Head(clients).id) >>,
                         "client_security", Head(clients).id),
             Tail(clients))

-----------------------------------------------------------------------------
(* main.c: the process, its startup and its shutdown.  The state of the    *)
(* process is handed through the destroy functions as a record.            *)

MainState ==
    [live |-> live, sec_ctx |-> sec_ctx, clients |-> sec_clients,
     released |-> released, surfaces |-> surfaces, outputs |-> outputs]

\* security_context_destroy that frees the context and leaves the entries
security_context_destroy_entries_kept(st) ==
    IF st.sec_ctx = NULL THEN st
    ELSE [st EXCEPT
            !.released = @ \o << MemOp("zero", "security_context", NoObject),
                                 MemOp("free", "security_context", NoObject) >>,
            !.sec_ctx = NULL,
            !.live = @ \ {"sec_ctx"}]

\* security_context_destroy(ctx)
security_context_destroy(st) ==
    IF st.sec_ctx = NULL THEN st
    ELSE [st EXCEPT
            !.released = FreeClients(@, st.clients)
                            \o << MemOp("zero", "security_context", NoObject),
                                  MemOp("free", "security_context", NoObject) >>,
            !.clients = << >>,
            !.sec_ctx = NULL,
            !.live = @ \ {"sec_ctx"}]

\* libwayland: the display goes with its sockets and with the globals that
\* are still registered; clients and their resources are left alone
wl_display_destroy(st) ==
    [st EXCEPT !.live = @ \ {"display", "socket", "compositor_global",
                             "shm_global"}]

\* wl_global_destroy of the wl_compositor global, then wl_resource_destroy of
\* every surface
compositor_destroy_globals(st) ==
    [st EXCEPT !.live = @ \ {"compositor_global"}, !.surfaces = << >>]

shm_destroy(st) == [st EXCEPT !.live = @ \ {"shm_global"}]

\* output_destroy of the one output main() created
output_destroy(st) ==
    [st EXCEPT !.live = @ \ {"output"}, !.outputs = << >>]

\* the cleanup main() runs before return 1, by the call that failed
CleanupDisplayFailed(st) == security_context_destroy(st)

CleanupSocketFailed(st) == security_context_destroy(wl_display_destroy(st))

CleanupGlobalsFailed(st) == security_context_destroy(wl_display_destroy(st))

CleanupShmFailed(st) ==
    security_context_destroy(
        wl_display_destroy(compositor_destroy_globals(st)))

CleanupOutputFailed(st) ==
    security_context_destroy(
        wl_display_destroy(compositor_destroy_globals(shm_destroy(st))))

\* main() leaves with `status`, 1 after a call that failed, in the process
\* state st
MainExit(st, op, args, status) ==
    /\ live' = st.live
    /\ sec_ctx' = st.sec_ctx
    /\ sec_clients' = st.clients
    /\ released' = st.released
    /\ surfaces' = st.surfaces
    /\ outputs' = st.outputs
    /\ created' = IF st.surfaces = surfaces THEN created ELSE << >>
    /\ damage_reqs' = IF st.surfaces = surfaces THEN damage_reqs ELSE << >>
    /\ committed' = IF st.surfaces = surfaces THEN committed ELSE << >>
    /\ pc' = "exit"
    /\ exit_status' = << status >>
    /\ last' = Request(op, NoObject, args, "failed")
    /\ UNCHANGED << frame_count, snapshots, shm_vars, client_err, random_call,
                    callbacks >>

\* main() goes on to the step `next` holding one more resource
MainStep(next, made, op, args) ==
    /\ pc' = next
    /\ live' = live \cup made
    /\ last' = Request(op, NoObject, args, NoError)
    /\ UNCHANGED << exit_status, released, frame_count, snapshots, shm_vars,
                    client_err, created, damage_reqs, committed, random_call,
                    callbacks >>

\* steps 1 and 2: drop_privileges exits when it cannot drop them; a failed
\* lock_memory is a warning
main_privileges(root, drop_ok, lock_ok) ==
    /\ pc = "privileges"
    /\ IF root /\ ~drop_ok
       THEN MainExit(MainState, "drop_privileges", << root, drop_ok >>, 1)
       ELSE /\ MainStep("security_context", {}, "lock_memory",
                        << root, drop_ok, lock_ok >>)
            /\ UNCHANGED << sec_ctx, sec_clients, surfaces, outputs >>

\* step 3
main_security_context(calloc_ok, open_ok, source, errno) ==
    /\ pc = "security_context"
    /\ LET r == security_context_create(calloc_ok, open_ok, source, errno)
       IN  IF ~r.returns
           THEN /\ pc' = "security_context_spin"
                /\ live' = live \cup r.live
                /\ last' = Request("security_context_create", NoObject,
                                   << calloc_ok, open_ok, source, errno >>,
                                   "spins")
                /\ UNCHANGED << exit_status, sec_ctx, released, random_call,
                                callbacks, surface_vars, output_vars,
                                shm_vars, client_err >>
           ELSE IF r.ctx = NULL
           THEN MainExit([MainState EXCEPT !.live = @ \cup r.live],
                         "security_context_create",
                         << calloc_ok, open_ok, source, errno >>, 1)
           ELSE /\ MainStep("display", r.live, "security_context_create",
                            << calloc_ok, open_ok, source, errno >>)
                /\ sec_ctx' = r.ctx
                /\ sec_clients' = r.clients
                /\ UNCHANGED << surfaces, outputs >>

\* step 4
main_display(ok) ==
    /\ pc = "display"
    /\ IF ~ok
       THEN MainExit(CleanupDisplayFailed(MainState), "wl_display_create",
                     << ok >>, 1)
       ELSE /\ MainStep("socket", {"display"}, "wl_display_create", << ok >>)
            /\ UNCHANGED << sec_ctx, sec_clients, surfaces, outputs >>

\* step 5
main_socket(ok) ==
    /\ pc = "socket"
    /\ IF ~ok
       THEN MainExit(CleanupSocketFailed(MainState),
                     "wl_display_add_socket_auto", << ok >>, 1)
       ELSE /\ MainStep("globals", {"socket"}, "wl_display_add_socket_auto",
                        << ok >>)
            /\ UNCHANGED << sec_ctx, sec_clients, surfaces, outputs >>

\* steps 6 and 7: compositor_init_globals
main_globals(ok) ==
    /\ pc = "globals"
    /\ IF ~ok
       THEN MainExit(CleanupGlobalsFailed(MainState),
                     "compositor_init_globals", << ok >>, 1)
       ELSE /\ MainStep("shm", {"compositor_global"},
                        "compositor_init_globals", << ok >>)
            /\ surfaces' = << >>
            /\ UNCHANGED << sec_ctx, sec_clients, outputs >>

\* step 8: shm_init
main_shm(ok) ==
    /\ pc = "shm"
    /\ IF ~ok
       THEN MainExit(CleanupShmFailed(MainState), "shm_init", << ok >>, 1)
       ELSE /\ MainStep("output", {"shm_global"}, "shm_init", << ok >>)
            /\ UNCHANGED << sec_ctx, sec_clients, surfaces, outputs >>

\* step 9: output_create; oom names the allocation that fails, if any.  The
\* new output goes to the head of compositor->outputs.
main_output(width, height, oom) ==
    /\ pc = "output"
    /\ IF oom # "none"
       THEN MainExit(CleanupOutputFailed(MainState), "output_create",
                     << width, height, oom >>, 1)
       ELSE /\ MainStep("signals", {"output"}, "output_create",
                        << width, height, oom >>)
            /\ outputs' = << output_create(width, height) >> \o outputs
            /\ UNCHANGED << sec_ctx, sec_clients, surfaces >>

\* step 10: setup_signal_handlers installs signal_handler for SIGINT and
\* SIGTERM; nothing removes it before the process ends
main_setup_signal_handlers ==
    /\ pc = "signals"
    /\ MainStep("enter_loop", {}, "setup_signal_handlers", << >>)
    /\ UNCHANGED << sec_ctx, sec_clients, surfaces, outputs >>

\* step 11: wl_display_run is entered and sets the run flag of the display
main_display_run ==
    /\ pc = "enter_loop"
    /\ MainStep("run", {}, "wl_display_run", << >>)
    /\ UNCHANGED << sec_ctx, sec_clients, surfaces, outputs >>

\* the steps of main() at which signal_handler is installed
HandlerInstalled ==
    {"enter_loop", "run", "stopping", "terminated", "cleanup_shm",
     "cleanup_globals", "cleanup_display", "cleanup_context", "cleanup_done"}

\* what the handler's call of wl_display_terminate on a destroyed display
\* may do: write into the freed memory and return, abort the process
\* (libwayland asserts that its write to the closed eventfd succeeded), or
\* fault on a pointer read from the freed memory
DanglingOutcomes == {"returns", "aborts", "segfaults"}

\* where main() is once wl_display_destroy has returned: g_compositor still
\* names the display
DisplayFreed == {"cleanup_context", "cleanup_done"}

\* the status of a process that a signal killed: SIGABRT, SIGSEGV
KilledStatus(outcome) == IF outcome = "aborts" THEN << -6 >> ELSE << -11 >>

\* SIGINT or SIGTERM: signal_handler clears compositor->running, which
\* nothing reads, and calls wl_display_terminate, which clears the run flag
\* of the display.  Before wl_display_run is entered the flag is set again
\* at the entry and the signal is lost.  While wl_display_run dispatches,
\* the flag is read when the dispatch in progress is over.  After the loop
\* the flag is clear already.  After wl_display_destroy, until main()
\* returns, the display that g_compositor still names is freed: the call is
\* undefined, `outcome` is what it does.
signal_handler(signum, outcome) ==
    /\ pc \in HandlerInstalled
    /\ LET killed == pc \in DisplayFreed /\ outcome # "returns"
       IN  /\ pc' = IF pc = "run" THEN "stopping"
                    ELSE IF killed THEN "exit"
                    ELSE pc
           /\ exit_status' = IF killed THEN KilledStatus(outcome)
                             ELSE exit_status
           /\ last' = Request("signal", NoObject, << signum >>,
                              IF killed THEN "killed" ELSE NoError)
    /\ UNCHANGED << live, sec_ctx, released, random_call,
                    callbacks, surface_vars,
                    output_vars, shm_vars, client_err >>

\* wl_display_run returns: the run flag is clear and the dispatch in
\* progress is over, the requests that were readable handled and the client
\* it put in error destroyed
main_display_run_returns ==
    /\ pc = "stopping"
    /\ \A d \in AllClients : ~client_err[d]
    /\ pc' = "terminated"
    /\ last' = Request("wl_display_run", NoObject, << >>, "returned")
    /\ UNCHANGED << live, exit_status, sec_ctx, released, random_call,
                    callbacks, surface_vars, output_vars, shm_vars,
                    client_err >>

\* one call of step 12 of main() leaves the process state st; main() goes on
\* to `next`
MainCleanupStep(st, next, op) ==
    /\ live' = st.live
    /\ sec_ctx' = st.sec_ctx
    /\ sec_clients' = st.clients
    /\ released' = st.released
    /\ surfaces' = st.surfaces
    /\ outputs' = st.outputs
    /\ created' = IF st.surfaces = surfaces THEN created ELSE << >>
    /\ damage_reqs' = IF st.surfaces = surfaces THEN damage_reqs ELSE << >>
    /\ committed' = IF st.surfaces = surfaces THEN committed ELSE << >>
    /\ pc' = next
    /\ last' = Request(op, NoObject, << >>, NoError)
    /\ UNCHANGED << exit_status, frame_count, snapshots, shm_vars, client_err,
                    random_call, callbacks >>

\* step 12, call by call, after wl_display_run has returned
main_cleanup_output ==
    /\ pc = "terminated"
    /\ MainCleanupStep(output_destroy(MainState), "cleanup_shm",
                       "output_destroy")

main_cleanup_shm ==
    /\ pc = "cleanup_shm"
    /\ MainCleanupStep(shm_destroy(MainState), "cleanup_globals",
                       "shm_destroy")

main_cleanup_globals ==
    /\ pc = "cleanup_globals"
    /\ MainCleanupStep(compositor_destroy_globals(MainState),
                       "cleanup_display", "compositor_destroy_globals")

main_cleanup_display ==
    /\ pc = "cleanup_display"
    /\ MainCleanupStep(wl_display_destroy(MainState), "cleanup_context",
                       "wl_display_destroy")

main_cleanup_context ==
    /\ pc = "cleanup_context"
    /\ MainCleanupStep(security_context_destroy(MainState), "cleanup_done",
                       "security_context_destroy")

\* the end of main(): "Cleanup complete" is printed and main() returns 0
main_return ==
    /\ pc = "cleanup_done"
    /\ pc' = "exit"
    /\ exit_status' = << 0 >>
    /\ last' = Request("return", NoObject, << >>, NoError)
    /\ UNCHANGED << live, sec_ctx, released, random_call, callbacks,
                    surface_vars, output_vars, shm_vars, client_err >>

\* the resources a running server holds
ServerResources ==
    {"sec_ctx", "display", "socket", "compositor_global", "shm_global",
     "output"}

-----------------------------------------------------------------------------
(* The server after startup: one output, no clients' objects.              *)

Init ==
    /\ surfaces = << >>
    /\ created = << >>
    /\ damage_reqs = << >>
    /\ committed = << >>
    /\ sec_clients = << >>
    /\ outputs = << output_create(OutW, OutH) >>
    /\ frame_count = 0
    /\ pools = {}
    /\ buffers = {}
    /\ open_fds = {}
    /\ mapped = {}
    /\ bad_close = 0
    /\ client_err = [c \in AllClients |-> FALSE]
    /\ last = Request("none", NoObject, << >>, NoError)
    /\ snapshots = << >>
    /\ pc = "run"
    /\ live = ServerResources
    /\ exit_status = << >>
    /\ sec_ctx = NewContext(SessionIdBytes)
    /\ released = << >>
    /\ random_call = RandomIdle
    /\ callbacks = {}

\* the process when main() is entered
InitBoot ==
    /\ surfaces = << >>
    /\ created = << >>
    /\ damage_reqs = << >>
    /\ committed = << >>
    /\ sec_clients = << >>
    /\ outputs = << >>
    /\ frame_count = 0
    /\ pools = {}
    /\ buffers = {}
    /\ open_fds = {}
    /\ mapped = {}
    /\ bad_close = 0
    /\ client_err = [c \in AllClients |-> FALSE]
    /\ last = Request("none", NoObject, << >>, NoError)
    /\ snapshots = << >>
    /\ pc = "privileges"
    /\ live = {}
    /\ exit_status = << >>
    /\ sec_ctx = NULL
    /\ released = << >>
    /\ random_call = RandomIdle
    /\ callbacks = {}

-----------------------------------------------------------------------------
(* Spec: the composition pipeline.  Clients create surfaces, pools and     *)
(* buffers, attach, commit and destroy; the arguments are drawn from small *)
(* sets that hold accepted and rejected values.                            *)

\* a format code other than the two the server supports
UnsupportedFormat == WL_SHM_FORMAT_XRGB8888 + 1

\* the allocation failures of surface creation are exercised in SpecRegistry
CreateSurface ==
    \E c \in Clients :
        compositor_create_surface(c, "none", MaxSurfaces, MaxSecEntries)

DestroySurface ==
    \E c \in Clients, id \in SurfaceIds : surface_destroy(c, id)

Attach ==
    \E c \in Clients, id \in SurfaceIds, b \in BufferIds \cup {NoObject} :
        surface_attach(c, id, b, 0, 0)

Commit ==
    \E c \in Clients, id \in SurfaceIds, unfilled \in UnfilledOutputs :
        surface_commit(c, id, AllSaved, unfilled)

CreatePoolRequest ==
    \E c \in Clients, map_ok \in BOOLEAN : shm_create_pool(c, 8, map_ok, "none", MaxPools)

DestroyPoolRequest ==
    \E c \in Clients, id \in PoolIds : shm_pool_destroy(c, id)

CreateBuffer ==
    \E c \in Clients, p \in PoolIds, w \in {2, MAX_BUFFER_WIDTH + 1} :
        shm_pool_create_buffer(c, p, 0, w, 1, 4 * w, WL_SHM_FORMAT_ARGB8888, "none")

DestroyBuffer ==
    \E c \in Clients, id \in BufferIds : buffer_destroy(c, id)

Disconnect ==
    \E c \in Clients : client_destroy(c)

Next ==
    \/ CreateSurface
    \/ DestroySurface
    \/ Attach
    \/ Commit
    \/ CreatePoolRequest
    \/ DestroyPoolRequest
    \/ CreateBuffer
    \/ DestroyBuffer
    \/ Disconnect

Spec == Init /\ [][Next]_vars

-----------------------------------------------------------------------------
(* SpecRegistry: the surface registry with damage, every allocation        *)
(* failure of surface creation, and commits.                               *)

SurfaceOom == {"none", "surface", "resource", "client_sec"}

DamageRects ==
    {<< 0, 0, 1, 1 >>, << 0, 0, 2, 1 >>, << -1, 0, 2, 2 >>,
     << 0, 0, 0, 1 >>, << 0, 0, 1, -1 >>, << INT32_MAX, 0, 1, 1 >>}

\* the registry is exercised by one client, RegClient: a surface's damage does
\* not depend on who owns the other surfaces

RegCreateSurface ==
    \E oom \in SurfaceOom :
        compositor_create_surface(RegClient, oom, MaxSurfaces, MaxSecEntries)

RegDestroySurface ==
    \E id \in SurfaceIds : surface_destroy(RegClient, id)

Damage ==
    \E id \in SurfaceIds, r \in DamageRects :
        surface_damage(RegClient, id, r[1], r[2], r[3], r[4])

RegCommit ==
    \E id \in SurfaceIds, unfilled \in UnfilledOutputs :
        surface_commit(RegClient, id, AllSaved, unfilled)

RegDisconnect == client_destroy(RegClient)

NextRegistry ==
    \/ RegCreateSurface
    \/ RegDestroySurface
    \/ Damage
    \/ RegCommit
    \/ RegDisconnect

SpecRegistry == Init /\ [][NextRegistry]_vars

-----------------------------------------------------------------------------
(* SpecFrame: one client that attaches, damages and commits two surfaces.  *)

FrameRects ==
    {<< 0, 0, 1, 1 >>, << 0, 0, 0, 1 >>, << 0, 0, 1, MAX_BUFFER_HEIGHT + 1 >>}

FrameCreateSurface ==
    compositor_create_surface(RegClient, "none", MaxSurfaces, MaxSecEntries)

FrameAttach ==
    \E id \in SurfaceIds, b \in BufferIds \cup {NoObject} :
        surface_attach(RegClient, id, b, 0, 0)

FrameDamage ==
    \E id \in SurfaceIds, r \in FrameRects :
        surface_damage(RegClient, id, r[1], r[2], r[3], r[4])

FrameCreatePool == shm_create_pool(RegClient, 8, TRUE, "none", MaxPools)

FrameCreateBuffer ==
    \E p \in PoolIds :
        shm_pool_create_buffer(RegClient, p, 0, 2, 1, 8, WL_SHM_FORMAT_ARGB8888,
                               "none")

NextFrame ==
    \/ FrameCreateSurface
    \/ RegDestroySurface
    \/ FrameAttach
    \/ FrameDamage
    \/ RegCommit
    \/ FrameCreatePool
    \/ FrameCreateBuffer

SpecFrame == Init /\ [][NextFrame]_vars

-----------------------------------------------------------------------------
(* SpecClients: two connections, one of them with no visible peer process, *)
(* that create and destroy surfaces, commit and disconnect; the surface    *)
(* limit test is applied to surface counts around the limit.               *)

CredClients == {RegClient, DetachedClient}

LimitCounts == {0, 1, MAX_SURFACES_PER_CLIENT - 1, MAX_SURFACES_PER_CLIENT,
                MAX_SURFACES_PER_CLIENT + 1, INT32_MAX}

ClCreateSurface ==
    \E c \in CredClients, oom \in {"none", "client_sec"} :
        compositor_create_surface(c, oom, MaxClientSurfaces, MaxClientSurfaces)

ClDestroySurface ==
    \E c \in CredClients, id \in SurfaceIds : surface_destroy(c, id)

ClCommit ==
    \E c \in CredClients, id \in SurfaceIds, unfilled \in UnfilledOutputs :
        surface_commit(c, id, AllSaved, unfilled)

ClDisconnect ==
    \E c \in CredClients : client_destroy(c)

\* check_surface_limit on a registry entry with a given surface_count, and on
\* no entry
CallCheckSurfaceLimit ==
    /\ last.op = "create_surface"
    /\ \/ \E n \in LimitCounts :
              last' = Request("check_surface_limit", last.client, << n >>,
                         check_surface_limit(
                             [ZeroSec(NoObject) EXCEPT !.surface_count = n]))
       \/ last' = Request("check_surface_limit", last.client, << >>,
                          check_surface_limit(NULL))
    /\ UNCHANGED << main_vars, callbacks, surface_vars, output_vars, shm_vars, client_err >>

NextClients ==
    \/ ClCreateSurface
    \/ ClDestroySurface
    \/ ClCommit
    \/ ClDisconnect
    \/ CallCheckSurfaceLimit

SpecClients == Init /\ [][NextClients]_vars

-----------------------------------------------------------------------------
(* SpecShm: pools and buffers, with failing maps, failing allocations and  *)
(* dimensions and formats on both sides of every check.                    *)

PoolOom == {"none", "resource", "pool_data"}
BufferOom == {"none", "buffer", "resource"}
PoolSizes == {-4, 0, 8}
BufferWidths == {-1, 0, 2, MAX_BUFFER_WIDTH, MAX_BUFFER_WIDTH + 1}
BufferHeights == {-1, 0, 1, MAX_BUFFER_HEIGHT, MAX_BUFFER_HEIGHT + 1}
BufferFormats == {WL_SHM_FORMAT_ARGB8888, WL_SHM_FORMAT_XRGB8888, UnsupportedFormat}

ShmCreatePool ==
    \E c \in Clients, size \in PoolSizes, map_ok \in BOOLEAN, oom \in PoolOom :
        shm_create_pool(c, size, map_ok, oom, MaxShmPools)

ShmResizePool ==
    \E c \in Clients, id \in PoolIds, size \in PoolSizes : shm_pool_resize(c, id, size)

ShmCreateBuffer ==
    \E c \in Clients, p \in PoolIds, w \in BufferWidths, h \in BufferHeights,
       f \in BufferFormats, oom \in BufferOom :
        shm_pool_create_buffer(c, p, 0, w, h, 8, f, oom)

ShmStaleDestroyPool ==
    \E c \in Clients, id \in 1 .. MaxShmPools : stale_pool_destroy(c, id)

NextShm ==
    \/ ShmCreatePool
    \/ DestroyPoolRequest
    \/ ShmStaleDestroyPool
    \/ ShmResizePool
    \/ ShmCreateBuffer
    \/ DestroyBuffer
    \/ Disconnect

SpecShm == Init /\ [][NextShm]_vars

-----------------------------------------------------------------------------
(* SpecBind: clients bind the wl_shm global and create buffers of every    *)
(* format of BufferFormats.                                                *)

BindShm == \E c \in Clients, oom \in BOOLEAN : shm_bind(c, oom)

BindCompositor == \E c \in Clients, oom \in BOOLEAN : compositor_bind(c, oom)

BindCreatePool ==
    \E c \in Clients : shm_create_pool(c, 8, TRUE, "none", MaxShmPools)

BindCreateBuffer ==
    \E c \in Clients, p \in PoolIds, w \in {2, MAX_BUFFER_WIDTH + 1},
       f \in BufferFormats :
        shm_pool_create_buffer(c, p, 0, w, 1, 4 * w, f, "none")

NextBind ==
    \/ BindShm
    \/ BindCompositor
    \/ BindCreatePool
    \/ BindCreateBuffer
    \/ DestroyBuffer
    \/ Disconnect

SpecBind == Init /\ [][NextBind]_vars

-----------------------------------------------------------------------------
(* SpecMain: the life of the process.  main() starts up, with every call   *)
(* that can fail failing or not; one client creates, commits and destroys  *)
(* surfaces while snapshots are saved or not; a signal shuts the server    *)
(* down.                                                                   *)

Bytes(n) == ReadResult(n, "none")
Interrupted == ReadResult(-1, "EINTR")
Failed == ReadResult(-1, "EIO")
EndOfFile == ReadResult(0, "none")

\* what the reads of /dev/urandom return: all at once, in two parts, after an
\* interrupted read, an error after a part, an error at once, end of file
\* before a full read, end of file for ever
UrandomSources ==
    {ReadSource(<< >>, << Bytes(SessionIdBytes) >>),
     ReadSource(<< Bytes(3) >>, << Bytes(SessionIdBytes - 3) >>),
     ReadSource(<< Interrupted >>, << Bytes(SessionIdBytes) >>),
     ReadSource(<< Bytes(3) >>, << Failed >>),
     ReadSource(<< >>, << Failed >>),
     ReadSource(<< EndOfFile >>, << Bytes(SessionIdBytes) >>),
     ReadSource(<< >>, << EndOfFile >>)}

\* what errno holds when a function is called: nothing, or the error of an
\* earlier call that a signal interrupted
EntryErrnos == {"none", "EINTR"}

OutputOom == {"none", "output", "fb_data", "framebuffer"}

MainPrivileges ==
    \E root \in BOOLEAN, drop_ok \in BOOLEAN, lock_ok \in BOOLEAN :
        main_privileges(root, drop_ok, lock_ok)

MainSecurityContext ==
    \E calloc_ok \in BOOLEAN, open_ok \in BOOLEAN, source \in UrandomSources,
       errno \in EntryErrnos :
        main_security_context(calloc_ok, open_ok, source, errno)

MainDisplay == \E ok \in BOOLEAN : main_display(ok)

MainSocket == \E ok \in BOOLEAN : main_socket(ok)

MainGlobals == \E ok \in BOOLEAN : main_globals(ok)

MainShm == \E ok \in BOOLEAN : main_shm(ok)

MainOutput == \E oom \in OutputOom : main_output(OutW, OutH, oom)

MainCreateSurface ==
    \E oom \in {"none", "client_sec"} :
        compositor_create_surface(RegClient, oom, MaxSurfaces, MaxSecEntries)

MainCommit ==
    \E id \in SurfaceIds, saves \in [1 .. Len(outputs) -> SaveOutcomes],
       unfilled \in UnfilledOutputs :
        surface_commit(RegClient, id, saves, unfilled)

MainUnimplemented ==
    \E id \in SurfaceIds, opcode \in SurfaceOpcodesWithoutFunction,
       version \in CompositorVersions :
        surface_unimplemented(RegClient, id, opcode, version)

\* the end of the client's connection: libwayland destroys a client in error
\* before it dispatches anything else
MainDisconnect == client_destroy(RegClient)

MainSetupSignalHandlers == main_setup_signal_handlers

MainDisplayRun == main_display_run

Signals == {"SIGINT", "SIGTERM"}

SignalHandler ==
    \E signum \in Signals, outcome \in DanglingOutcomes :
        signal_handler(signum, outcome)

\* step 12, the call that is next
MainCleanup ==
    \/ main_display_run_returns
    \/ main_cleanup_output
    \/ main_cleanup_shm
    \/ main_cleanup_globals
    \/ main_cleanup_display
    \/ main_cleanup_context
    \/ main_return

\* security_context_destroy applied once more, after main() destroyed or
\* never had a context and returned
CallSecurityContextDestroy ==
    /\ pc = "exit"
    /\ exit_status \in {<< 0 >>, << 1 >>}
    /\ last.op # "security_context_destroy"
    /\ LET st == security_context_destroy(MainState)
       IN  /\ live' = st.live
           /\ sec_ctx' = st.sec_ctx
           /\ sec_clients' = st.clients
           /\ released' = st.released
    /\ last' = Request("security_context_destroy", NoObject, << >>, NoError)
    /\ UNCHANGED << surfaces, created, damage_reqs, committed, output_vars,
                    shm_vars, client_err, pc, exit_status, random_call,
                    callbacks >>

NextMain ==
    \/ MainPrivileges
    \/ MainSecurityContext
    \/ MainDisplay
    \/ MainSocket
    \/ MainGlobals
    \/ MainShm
    \/ MainOutput
    \/ MainCreateSurface
    \/ RegDestroySurface
    \/ MainSetupSignalHandlers
    \/ MainDisplayRun
    \/ MainCommit
    \/ MainUnimplemented
    \/ MainDisconnect
    \/ SignalHandler
    \/ MainCleanup
    \/ CallSecurityContextDestroy

SpecMain == InitBoot /\ [][NextMain]_vars

-----------------------------------------------------------------------------
(* SpecCred: connections whose peer is a plain program, a VM tool, a       *)
(* process that is gone and a zombie create and destroy surfaces.          *)

ClassifiedClients == Clients \cup {GoneClient, ZombieClient}

CredCreateSurface ==
    \E c \in ClassifiedClients, oom \in {"none", "client_sec"} :
        compositor_create_surface(c, oom, MaxSurfaces, MaxSecEntries)

CredDestroySurface ==
    \E c \in ClassifiedClients, id \in SurfaceIds : surface_destroy(c, id)

CredDisconnect == \E c \in ClassifiedClients : client_destroy(c)

NextCred ==
    \/ CredCreateSurface
    \/ CredDestroySurface
    \/ CredDisconnect

SpecCred == Init /\ [][NextCred]_vars

-----------------------------------------------------------------------------
(* SpecValidate: the validation functions of security.c applied to 32-bit  *)
(* arguments around every limit they test.                                 *)

INT32_MIN == -2147483647 - 1

GeomXs == {INT32_MIN, -1, 0, 1, INT32_MAX - MAX_BUFFER_WIDTH,
           INT32_MAX - MAX_BUFFER_WIDTH + 1, INT32_MAX - 1, INT32_MAX}
GeomYs == {INT32_MIN, -1, 0, 1, INT32_MAX - MAX_BUFFER_HEIGHT,
           INT32_MAX - MAX_BUFFER_HEIGHT + 1, INT32_MAX - 1, INT32_MAX}
GeomWidths == {INT32_MIN, -1, 0, 1, 2, MAX_BUFFER_WIDTH, MAX_BUFFER_WIDTH + 1,
               INT32_MAX}
GeomHeights == {INT32_MIN, -1, 0, 1, 2, MAX_BUFFER_HEIGHT, MAX_BUFFER_HEIGHT + 1,
                INT32_MAX}

\* surface_damage's call: int32_t width and height become uint32_t
CallValidateGeometry ==
    /\ last.op = "none"
    /\ \E x \in GeomXs, y \in GeomYs, w \in GeomWidths, h \in GeomHeights :
          last' = Request("validate_geometry", NoObject, << x, y, w, h >>,
                          validate_geometry(x, y, ToU32(w), ToU32(h)))
    /\ UNCHANGED << main_vars, callbacks, surface_vars, output_vars, shm_vars, client_err >>

\* shm_pool_create_buffer's call: int32_t width and height become uint32_t
CallValidateBufferSize ==
    /\ last.op = "none"
    /\ \E w \in GeomWidths, h \in GeomHeights :
          last' = Request("validate_buffer_size", NoObject, << w, h >>,
                          validate_buffer_size(ToU32(w), ToU32(h)))
    /\ UNCHANGED << main_vars, callbacks, surface_vars, output_vars, shm_vars, client_err >>

NextValidate ==
    \/ CallValidateGeometry
    \/ CallValidateBufferSize

SpecValidate == Init /\ [][NextValidate]_vars

-----------------------------------------------------------------------------
(* SpecLimit: one client that creates surfaces and destroys none.          *)

LimitCreateSurface ==
    compositor_create_surface(RegClient, "none", ProbeSurfaces, ProbeSurfaces)

NextLimit == LimitCreateSurface

SpecLimit == Init /\ [][NextLimit]_vars

-----------------------------------------------------------------------------
(* SpecIsolation: two clients that hold surfaces, pools and buffers side by *)
(* side while requests of either are rejected, for every reason the server *)
(* rejects one, and while pools are resized.                               *)

ResizeSizes == {16}

\* create_buffer requests: one accepted, one rejected for each reason
IsoBufferRequests ==
    {<< 2, WL_SHM_FORMAT_ARGB8888, "none" >>,
     << MAX_BUFFER_WIDTH + 1, WL_SHM_FORMAT_ARGB8888, "none" >>,
     << 2, UnsupportedFormat, "none" >>,
     << 2, WL_SHM_FORMAT_ARGB8888, "buffer" >>}

\* create_pool requests: one accepted, one rejected for each reason
IsoPoolRequests ==
    {<< TRUE, "none" >>, << FALSE, "none" >>, << TRUE, "pool_data" >>}

IsoCreateSurface ==
    \E c \in Clients, oom \in {"none", "surface"} :
        compositor_create_surface(c, oom, MaxSurfaces, MaxSecEntries)

IsoAttach ==
    \E c \in Clients, id \in SurfaceIds, b \in BufferIds :
        surface_attach(c, id, b, 0, 0)

IsoCreatePool ==
    \E c \in Clients, r \in IsoPoolRequests :
        shm_create_pool(c, 8, r[1], r[2], MaxShmPools)

IsoResizePool ==
    \E c \in Clients, id \in PoolIds, size \in ResizeSizes :
        shm_pool_resize(c, id, size)

IsoCreateBuffer ==
    \E c \in Clients, p \in PoolIds, r \in IsoBufferRequests :
        shm_pool_create_buffer(c, p, 0, r[1], 1, 4 * r[1], r[2], r[3])

NextIsolation ==
    \/ IsoCreateSurface
    \/ IsoAttach
    \/ IsoCreatePool
    \/ IsoResizePool
    \/ IsoCreateBuffer
    \/ Disconnect

SpecIsolation == Init /\ [][NextIsolation]_vars

-----------------------------------------------------------------------------
(* SpecImage: shm_buffer_get_image applied to every kind of resource: none, *)
(* a buffer of this server, and buffers of libwayland's own wl_shm of      *)
(* supported and unsupported formats, with row strides that are and are   *)
(* not multiples of 4, with and without memory for the image.              *)

ImageFormats ==
    {WL_SHM_FORMAT_ARGB8888, WL_SHM_FORMAT_XRGB8888, UnsupportedFormat,
     UnsupportedFormat + 1}

\* a resource that libwayland's wl_shm made
ShmBufferResource(format, width, height, stride, data) ==
    [implementation |-> "shm_buffer_interface",
     shm_buffer |-> [format |-> format, width |-> width, height |-> height,
                     stride |-> stride, data |-> data]]

ImageResources ==
    {NULL, [implementation |-> "buffer_implementation", shm_buffer |-> NULL]}
    \cup {ShmBufferResource(f, w, h, 4 * w + pad, BufferColour(d)) :
            f \in ImageFormats, w \in {1, 2, MAX_BUFFER_WIDTH},
            h \in {1, 2, MAX_BUFFER_HEIGHT}, pad \in {0, 2, 4}, d \in {1, 2}}

CallShmBufferGetImage ==
    /\ last.op = "none"
    /\ \E r \in ImageResources, alloc_ok \in BOOLEAN :
          last' = Request("shm_buffer_get_image", NoObject, << r, alloc_ok >>,
                          [image |-> shm_buffer_get_image(r, alloc_ok),
                           accesses |-> shm_buffer_get_image_accesses(r)])
    /\ UNCHANGED << main_vars, callbacks, surface_vars, output_vars, shm_vars, client_err >>

NextImage == CallShmBufferGetImage

SpecImage == Init /\ [][NextImage]_vars

-----------------------------------------------------------------------------
(* SpecShutdown: clients create surfaces and a pool until a signal ends the *)
(* event loop; main() then runs its cleanup call by call.  main() is       *)
(* straight-line code after wl_display_run returns and each of the calls   *)
(* returns, hence the weak fairness of the cleanup.                        *)

ShutCreateSurface ==
    \E c \in Clients, oom \in {"none", "client_sec"} :
        compositor_create_surface(c, oom, MaxSurfaces, MaxSecEntries)

ShutCreatePool ==
    \E c \in Clients : shm_create_pool(c, 8, TRUE, "none", MaxPools)

ShutCommit ==
    \E c \in Clients, id \in SurfaceIds, unfilled \in UnfilledOutputs :
        surface_commit(c, id, AllSaved, unfilled)

NextShutdown ==
    \/ ShutCreateSurface
    \/ ShutCreatePool
    \/ ShutCommit
    \/ SignalHandler
    \/ MainCleanup

SpecShutdown == Init /\ [][NextShutdown]_vars /\ WF_vars(MainCleanup)

-----------------------------------------------------------------------------
(* SpecRandom: secure_random_bytes, iteration by iteration, on sources that *)
(* deliver at once, in parts, after interrupted reads, that fail, that are  *)
(* at their end, and that are interrupted for ever.  The loop is code that  *)
(* runs: weak fairness of its iteration.                                    *)

RandomSources ==
    {ReadSource(<< >>, << Bytes(SessionIdBytes), Bytes(SessionIdBytes) >>),
     ReadSource(<< >>, << Bytes(3), Bytes(3) >>),
     ReadSource(<< >>, << Bytes(1), Bytes(2) >>),
     ReadSource(<< Interrupted >>, << Bytes(SessionIdBytes), Bytes(3) >>),
     ReadSource(<< Bytes(3), Interrupted >>, << Bytes(3), Bytes(3) >>),
     ReadSource(<< Bytes(3) >>, << Failed, Failed >>),
     ReadSource(<< Failed >>, << Bytes(3), Bytes(3) >>),
     ReadSource(<< >>, << EndOfFile, EndOfFile >>),
     ReadSource(<< Bytes(3) >>, << EndOfFile, EndOfFile >>),
     ReadSource(<< Interrupted >>, << EndOfFile, EndOfFile >>),
     ReadSource(<< Bytes(3), Interrupted, Bytes(1) >>, << EndOfFile, EndOfFile >>),
     ReadSource(<< >>, << Interrupted, Interrupted >>)}

RandomLengths == {0, 1, SessionIdBytes}

RandomOpen ==
    \E len \in RandomLengths, open_ok \in BOOLEAN, source \in RandomSources,
       errno \in EntryErrnos :
        random_open(len, open_ok, source, errno)

RandomLoop == random_loop

NextRandom ==
    \/ RandomOpen
    \/ RandomLoop

SpecRandom == Init /\ [][NextRandom]_vars /\ WF_vars(RandomLoop)

-----------------------------------------------------------------------------
(* SpecCallback: frame requests among surface creation and destruction,    *)
(* commits and disconnects.                                                *)

MaxCallbacks == 2    \* callback ids a client may ask for

CbCreateSurface ==
    \E c \in Clients :
        compositor_create_surface(c, "none", MaxSurfaces, MaxSecEntries)

CbDestroySurface ==
    \E c \in Clients, id \in SurfaceIds : surface_destroy(c, id)

CbFrame ==
    \E c \in Clients, id \in SurfaceIds, callback \in 1 .. MaxCallbacks,
       oom \in BOOLEAN :
        surface_frame(c, id, callback, oom)

CbCommit ==
    \E c \in Clients, id \in SurfaceIds, unfilled \in UnfilledOutputs :
        surface_commit(c, id, AllSaved, unfilled)

CbUnimplemented ==
    \E c \in Clients, id \in SurfaceIds,
       opcode \in SurfaceOpcodesWithoutFunction,
       version \in CompositorVersions :
        surface_unimplemented(c, id, opcode, version)

NextCallback ==
    \/ CbCreateSurface
    \/ CbDestroySurface
    \/ CbFrame
    \/ CbCommit
    \/ CbUnimplemented
    \/ Disconnect

SpecCallback == Init /\ [][NextCallback]_vars

-----------------------------------------------------------------------------
(* SpecPrivileges: drop_privileges and main()'s call of it, on processes   *)
(* started by root, set-uid root by a user, with and without the two       *)
(* capabilities, with each of the three calls failing.  main() calls       *)
(* drop_privileges first of all: the saved uid is the effective uid, as    *)
(* execve leaves it, and the effective capabilities are permitted ones.    *)

Uids == {0, 1000}
Gids == {0, 100}
GroupLists == {{}, {0, 27}}
DropFaults == {"none", "setgroups", "setgid", "setuid"}

Capabilities == {"CAP_SETUID", "CAP_SETGID"}

CapabilitySets ==
    {<< e, p >> \in (SUBSET Capabilities) \X (SUBSET Capabilities) :
        e \subseteq p}

ProcessCredentials ==
    {ProcessCred(ruid, euid, euid, gid, groups, caps[1], caps[2], nf) :
        ruid \in Uids, euid \in Uids, gid \in Gids,
        groups \in GroupLists, caps \in CapabilitySets, nf \in BOOLEAN}

CallDropPrivileges ==
    /\ last.op = "none"
    /\ \E cred \in ProcessCredentials, fault \in DropFaults :
          last' = Request("drop_privileges", NoObject, << cred, fault >>,
                          drop_privileges(cred, fault))
    /\ UNCHANGED << main_vars, callbacks, surface_vars, output_vars, shm_vars,
                    client_err >>

CallMainDropPrivileges ==
    /\ last.op = "none"
    /\ \E cred \in ProcessCredentials, fault \in DropFaults :
          last' = Request("main_drop_privileges", NoObject, << cred, fault >>,
                          main_drop_privileges(cred, fault))
    /\ UNCHANGED << main_vars, callbacks, surface_vars, output_vars, shm_vars,
                    client_err >>

NextPrivileges ==
    \/ CallDropPrivileges
    \/ CallMainDropPrivileges

SpecPrivileges == Init /\ [][NextPrivileges]_vars

-----------------------------------------------------------------------------
(* Properties.                                                             *)

Background == << 255, 32, 32, 32 >>       \* opaque 0x20,0x20,0x20

\* position of a surface id in the creation order
CreatedAt(id) == CHOOSE i \in 1 .. Len(created) : created[i] = id

\* the surfaces whose attached buffer is a live buffer object
Attached == {s \in Range(surfaces) : BufferResource(s.buffer_resource) # NULL}

\* pixel p lies inside the buffer attached to s, placed at (0,0)
Covers(s, p) ==
    LET b == BufferResource(s.buffer_resource)
    IN  p[1] < b.width /\ p[2] < b.height

\* C1: no client ever owns more than MAX_SURFACES_PER_CLIENT (100) live
\* surfaces: a create_surface request of a client that has 100 adds none.
C1_SurfaceLimit ==
    \A c \in Clients : Cardinality(SurfacesOf(c)) <= MAX_SURFACES_PER_CLIENT

\* C2: the renderer traverses the surfaces in creation order, and after a
\* repaint a pixel covered by the buffers of two surfaces has the colour of
\* the one created later.
C2_LaterCreatedOnTop ==
    \A a \in Attached, b \in Attached :
        (last.op = "commit" /\ CreatedAt(a.id) < CreatedAt(b.id)) =>
            /\ [i \in 1 .. Len(surfaces) |-> surfaces[i].id] = created
            /\ \A i \in 1 .. Len(outputs) :
                   \A p \in DOMAIN outputs[i].framebuffer :
                       (Covers(a, p) /\ Covers(b, p)) =>
                           outputs[i].framebuffer[p]
                               = BufferColour(b.buffer_resource)

\* C3: after a repaint with no surface that has a buffer attached, every
\* pixel of every output is the opaque background colour.
C3_BackgroundOnly ==
    (last.op = "commit"
        /\ \A s \in Range(surfaces) : s.buffer_resource = NoObject) =>
        \A i \in 1 .. Len(outputs) :
            \A p \in DOMAIN outputs[i].framebuffer :
                outputs[i].framebuffer[p] = Background

\* C4: after the commit of the only surface, with a live buffer attached at
\* (0,0), every pixel inside the buffer's width and height has the buffer's
\* colour and every other pixel has the background colour.
C4_SingleSurfaceShown ==
    (last.op = "commit" /\ Len(surfaces) = 1
        /\ Attached = Range(surfaces)) =>
        \A i \in 1 .. Len(outputs) :
            \A p \in DOMAIN outputs[i].framebuffer :
                outputs[i].framebuffer[p] =
                    IF Covers(surfaces[1], p)
                    THEN BufferColour(surfaces[1].buffer_resource)
                    ELSE Background

RECURSIVE UnionOfRects(_)
\* the pixels of the rectangles of a request log
UnionOfRects(log) ==
    IF log = << >> THEN {}
    ELSE RectPixels(Head(log)[1], Head(log)[2], Head(log)[3], Head(log)[4])
            \cup UnionOfRects(Tail(log))

\* C5: a surface's damage is the union of the rectangles accepted for it;
\* two surfaces that were sent the same rectangles, in any order and any
\* number of times, have the same damage.
C5_DamageIsUnion ==
    /\ \A s \in Range(surfaces) : s.damage = UnionOfRects(damage_reqs[s.id])
    /\ \A s \in Range(surfaces), t \in Range(surfaces) :
           Range(damage_reqs[s.id]) = Range(damage_reqs[t.id]) =>
               s.damage = t.damage

\* two surfaces damaged with the same two overlapping rectangles in opposite
\* orders
C5_Witness ==
    \E s \in Range(surfaces), t \in Range(surfaces) :
        LET ls == damage_reqs[s.id]
            lt == damage_reqs[t.id]
        IN  /\ s.id # t.id
            /\ Len(ls) = 2 /\ Len(lt) = 2
            /\ ls[1] = lt[2] /\ ls[2] = lt[1]
            /\ ls[1] # ls[2]
            /\ UnionOfRects(<< ls[1] >>) \cap UnionOfRects(<< ls[2] >>) # {}
            /\ UnionOfRects(<< ls[1] >>) # s.damage
            /\ UnionOfRects(<< ls[2] >>) # s.damage
            /\ s.damage = t.damage

\* C6: validate_geometry returns true exactly when 1 <= width <= 3840,
\* 1 <= height <= 2160, x + width <= 2^31 - 1 and y + height <= 2^31 - 1.
C6_GeometryExact ==
    last.op = "validate_geometry" =>
        LET x == last.args[1]
            y == last.args[2]
            w == last.args[3]
            h == last.args[4]
        IN  last.result =
              (/\ 1 <= w /\ w <= MAX_BUFFER_WIDTH
               /\ 1 <= h /\ h <= MAX_BUFFER_HEIGHT
               /\ x <= INT32_MAX - w
               /\ y <= INT32_MAX - h)

\* the largest rectangle whose right and bottom edges are exactly 2^31 - 1
C6_Witness ==
    /\ last.op = "validate_geometry"
    /\ last.args = << INT32_MAX - MAX_BUFFER_WIDTH, INT32_MAX - MAX_BUFFER_HEIGHT,
                      MAX_BUFFER_WIDTH, MAX_BUFFER_HEIGHT >>
    /\ last.result = TRUE

\* C7: validate_buffer_size accepts (3840, 2160) and rejects every pair with
\* width > 3840 or height > 2160, a negative int32_t included.
C7_BufferSizeBounds ==
    last.op = "validate_buffer_size" =>
        LET w == last.args[1]
            h == last.args[2]
        IN  /\ (w = MAX_BUFFER_WIDTH /\ h = MAX_BUFFER_HEIGHT) => last.result = TRUE
            /\ (w > MAX_BUFFER_WIDTH \/ h > MAX_BUFFER_HEIGHT \/ w < 0 \/ h < 0)
                   => last.result = FALSE

\* the largest accepted size
C7_Witness ==
    /\ last.op = "validate_buffer_size"
    /\ last.args = << MAX_BUFFER_WIDTH, MAX_BUFFER_HEIGHT >>
    /\ last.result = TRUE

\* C8: every buffer that exists has 0 < width <= 3840 and 0 < height <= 2160.
C8_BufferDimensions ==
    \A b \in buffers :
        /\ 0 < b.width /\ b.width <= MAX_BUFFER_WIDTH
        /\ 0 < b.height /\ b.height <= MAX_BUFFER_HEIGHT

\* the format and the dimensions of a create_buffer request pass their checks
FormatOk(req) ==
    req.args[6] \in {WL_SHM_FORMAT_ARGB8888, WL_SHM_FORMAT_XRGB8888}
SizeOk(req) ==
    LET w == req.args[3]
        h == req.args[4]
    IN  ~(w > MAX_BUFFER_WIDTH \/ h > MAX_BUFFER_HEIGHT \/ w < 0 \/ h < 0)

\* C9: create_buffer posts InvalidStride whenever the dimensions are rejected,
\* and InvalidFormat whenever the dimensions are accepted and the format is
\* not ARGB8888 or XRGB8888; whenever a check fails it creates no buffer and
\* the client is in error; it creates a buffer only when both checks pass.
C9_CreateBufferErrors ==
    [][last'.op = "create_buffer" =>
          /\ ~SizeOk(last') => last'.result = WL_SHM_ERROR_INVALID_STRIDE
          /\ (SizeOk(last') /\ ~FormatOk(last'))
                => last'.result = WL_SHM_ERROR_INVALID_FORMAT
          /\ (~SizeOk(last') \/ ~FormatOk(last'))
                => (buffers' = buffers /\ client_err'[last'.client])
          /\ buffers' # buffers => (SizeOk(last') /\ FormatOk(last'))]_vars

\* a request whose dimensions and format are both rejected
C9_Witness ==
    /\ last.op = "create_buffer"
    /\ ~SizeOk(last)
    /\ ~FormatOk(last)
    /\ last.result = WL_SHM_ERROR_INVALID_STRIDE
    /\ client_err[last.client]

\* C9 as stated: InvalidFormat whenever the format is not supported, and
\* InvalidStride whenever the dimensions are rejected.
C9_AsStated ==
    [][last'.op = "create_buffer" =>
          /\ ~FormatOk(last') => last'.result = WL_SHM_ERROR_INVALID_FORMAT
          /\ ~SizeOk(last') => last'.result = WL_SHM_ERROR_INVALID_STRIDE
          /\ (~SizeOk(last') \/ ~FormatOk(last'))
                => (buffers' = buffers /\ client_err'[last'.client])
          /\ buffers' # buffers => (SizeOk(last') /\ FormatOk(last'))]_vars

\* C10: a create_pool whose map fails, or whose later allocation fails,
\* leaves the descriptor closed, no mapping and no new pool, and the client
\* in error.
C10_FailedPoolCleansUp ==
    [][last'.op = "create_pool" =>
          LET fd     == last'.args[1]
              size   == last'.args[2]
              map_ok == last'.args[3]
              oom    == last'.args[4]
          IN  (size <= 0 \/ ~map_ok \/ oom # "none") =>
                  /\ last'.result # NoError
                  /\ client_err'[last'.client]
                  /\ fd \notin open_fds'
                  /\ fd \notin mapped'
                  /\ pools' = pools
                  /\ bad_close' = bad_close]_vars

\* a failed allocation after a successful map, for a client that has a pool
C10_Witness ==
    /\ last.op = "create_pool"
    /\ last.args[3] = TRUE /\ last.args[2] > 0
    /\ last.result = WL_DISPLAY_ERROR_NO_MEMORY
    /\ \E p \in pools : p.client = last.client
    /\ last.args[1] \notin open_fds
    /\ last.args[1] \notin mapped

\* a destroy that unmaps the region of a live pool and closes its descriptor,
\* each once
DestroysOnce ==
    (last'.op = "pool_destroy" /\ last'.result = NoError) =>
        \E p \in pools :
            /\ p.id = last'.args[1]
            /\ p.fd \in open_fds /\ p.data \in mapped
            /\ pools' = pools \ {p}
            /\ open_fds' = open_fds \ {p.fd}
            /\ mapped' = mapped \ {p.data}

\* the destroy request that has just been handled names no live pool
StaleDestroy == last'.op = "pool_destroy" /\ last'.args[1] \notin PoolIds

\* C11: destroying a pool unmaps its region and closes its descriptor, each
\* once: the step removes exactly that mapping and that descriptor and no
\* close ever hits a descriptor that is not open; a destroy request for a
\* pool that is already destroyed unmaps nothing and closes nothing, and is
\* refused with invalid_object, which puts its client, and no other, in
\* error: the connection is to end.
C11_PoolDestroyedOnce ==
    [][/\ bad_close' = bad_close
       /\ DestroysOnce
       /\ (last'.op = "pool_destroy" /\ last'.result # NoError) => StaleDestroy
       /\ StaleDestroy =>
             /\ pools' = pools /\ open_fds' = open_fds /\ mapped' = mapped
             /\ buffers' = buffers
             /\ last'.result = WL_DISPLAY_ERROR_INVALID_OBJECT
             /\ client_err' = [client_err EXCEPT ![last'.client] = TRUE]
             /\ UNCHANGED << surface_vars, output_vars, callbacks >>]_vars

\* C11 as stated: a destroy request for a pool that is already destroyed
\* changes no state.
C11_AsStated ==
    [][/\ bad_close' = bad_close
       /\ DestroysOnce
       /\ StaleDestroy =>
             UNCHANGED << shm_vars, client_err, surface_vars, output_vars,
                          callbacks, main_vars >>]_vars

\* a second destroy request for a pool, right after the one that destroyed it
\* while the client holds another pool
C11_Witness ==
    /\ last.op = "pool_destroy"
    /\ last.result = WL_DISPLAY_ERROR_INVALID_OBJECT
    /\ last.args[1] \notin PoolIds
    /\ \E p \in pools : p.client = last.client /\ p.fd \in open_fds
    /\ Cardinality(open_fds) = Cardinality(pools)
    /\ mapped = {p.data : p \in pools}
    /\ bad_close = 0

\* C12: at a repaint a surface with no buffer attached has no pixel view and
\* is skipped, and a surface with a buffer attached is composited from the
\* pixel view of that buffer.
C12_AttachedIsComposited ==
    last.op = "commit" =>
        \A s \in Range(surfaces) :
            IF s.buffer_resource = NoObject THEN s.image = NULL
            ELSE BufferResource(s.buffer_resource) # NULL =>
                    /\ s.image # NULL
                    /\ s.image.bits = BufferColour(s.buffer_resource)

\* C13: attach and damage leave every output (framebuffer and damage region)
\* and the frame counter unchanged; only a commit changes them.
C13_OnlyCommitRepaints ==
    [][/\ last'.op \in {"attach", "damage"} =>
             (outputs' = outputs /\ frame_count' = frame_count)
       /\ (outputs' # outputs \/ frame_count' # frame_count) =>
             last'.op = "commit"]_vars

\* an attach of a buffer after one repaint, on a surface that was damaged
C13_Witness ==
    /\ last.op = "attach"
    /\ last.args[2] # NoObject
    /\ frame_count = 1
    /\ \E s \in Range(surfaces) :
           s.id = last.args[1] /\ s.damage # {} /\ s.buffer_resource = last.args[2]
    /\ \A p \in DOMAIN outputs[1].framebuffer :
           outputs[1].framebuffer[p] = Background

\* C14: a commit of any surface repaints each output once: every output
\* becomes its repaint over the current surfaces and the frame counter grows
\* by the number of outputs.
C14_CommitRepaintsEveryOutput ==
    [][last'.op = "commit" =>
          /\ frame_count' = frame_count + Len(outputs)
          /\ Len(outputs') = Len(outputs)
          /\ \A i \in 1 .. Len(outputs) :
                 /\ outputs'[i].framebuffer
                        = renderer_repaint_output(outputs[i], surfaces, TRUE)
                 /\ \A p \in DOMAIN outputs'[i].framebuffer :
                        outputs'[i].framebuffer[p] # Black0]_vars

\* C15: after a repaint, a buffer that a surface holds and that was not held
\* at the last commit of that surface, nor of any other surface, is not shown
\* on the pixels it covers.
C15_VisibleOnlyAtCommit ==
    last.op = "commit" =>
        \A s \in Range(surfaces) :
            (/\ BufferResource(s.buffer_resource) # NULL
             /\ \A t \in Range(surfaces) : committed[t.id] # s.buffer_resource) =>
                \A i \in 1 .. Len(outputs) :
                    \A p \in DOMAIN outputs[i].framebuffer :
                        Covers(s, p) =>
                            outputs[i].framebuffer[p]
                                # BufferColour(s.buffer_resource)

\* a repaint caused by another surface's commit while a surface holds a
\* buffer it has not committed
C15_Witness ==
    /\ last.op = "commit"
    /\ \E s \in Range(surfaces) :
           /\ s.id # last.args[1]
           /\ BufferResource(s.buffer_resource) # NULL
           /\ committed[s.id] = NoObject
           /\ \A t \in Range(surfaces) : committed[t.id] # s.buffer_resource
           /\ \E p \in DOMAIN outputs[1].framebuffer : Covers(s, p)

\* C16: right after a repaint every output holds the renderer's result over
\* the current surfaces and an empty damage region.
C16_DamageClearedAfterRepaint ==
    last.op = "commit" =>
        \A i \in 1 .. Len(outputs) :
            /\ outputs[i].damage = {}
            /\ outputs[i].framebuffer
                   = renderer_repaint_output(outputs[i], surfaces, TRUE)

\* C17: a destroyed surface leaves the collection and the other surfaces
\* keep their order, on a destroy request and on the teardown of a
\* connection alike; the collection holds the live surfaces, each once.
C17_DestroyRemovesSurface ==
    [][/\ last'.op = "surface_destroy" =>
             LET Others(s) == s.id # last'.args[1]
             IN  /\ last'.args[1] \in SurfaceIds
                 /\ surfaces' = SelectSeq(surfaces, Others)
       /\ last'.op = "client_destroy" =>
             LET Foreign(s) == s.client # last'.client
             IN  surfaces' = SelectSeq(surfaces, Foreign)
       /\ Len(surfaces') = Len(created')
       /\ {surfaces'[i].id : i \in 1 .. Len(surfaces')} = Range(created')]_vars

\* the destroy of the middle one of three surfaces
C17_Witness ==
    /\ last.op = "surface_destroy"
    /\ Len(surfaces) = 2
    /\ surfaces[2].id < last.args[1]
    /\ last.args[1] < surfaces[1].id
    /\ created = << surfaces[2].id, surfaces[1].id >>

\* C18: a client whose credentials carry pid <= 0 gets no surface and no
\* registry entry.
C18_InvalidCredentialsRefused ==
    /\ \A s \in Range(surfaces) : Credentials(s.client).pid > 0
    /\ \A e \in Range(sec_clients) : e.pid > 0

\* C19: the registry holds at most one entry per pid, and the surfaces of
\* one client reference the same entry.
C19_OneEntryPerPid ==
    /\ \A i \in 1 .. Len(sec_clients), j \in 1 .. Len(sec_clients) :
           sec_clients[i].pid = sec_clients[j].pid => i = j
    /\ \A s \in Range(surfaces), t \in Range(surfaces) :
           (s.client = t.client /\ s.client_sec # NoObject
                /\ t.client_sec # NoObject) => s.client_sec = t.client_sec

\* C20: every registry entry has surface_count <= MAX_SURFACES_PER_CLIENT,
\* and check_surface_limit on an entry returns true exactly when its
\* surface_count is below MAX_SURFACES_PER_CLIENT.
C20_SurfaceCountLimit ==
    /\ \A e \in Range(sec_clients) : e.surface_count <= MAX_SURFACES_PER_CLIENT
    /\ (last.op = "check_surface_limit" /\ last.args # << >>) =>
           last.result = (last.args[1] < MAX_SURFACES_PER_CLIENT)

\* the test applied to a count equal to the limit, with entries registered
C20_Witness ==
    /\ last.op = "check_surface_limit"
    /\ last.args = << MAX_SURFACES_PER_CLIENT >>
    /\ last.result = FALSE
    /\ Len(sec_clients) >= 2


\* C21: a damage request whose geometry validate_geometry refuses changes
\* nothing: the surfaces (damage regions, attached buffers, order), the
\* outputs and their framebuffers, the frame counter, the pools and buffers
\* are as before, and no connection is put in error.
C21_RejectedDamageChangesNothing ==
    [][(/\ last'.op = "damage"
        /\ ~validate_geometry(last'.args[2], last'.args[3],
                              ToU32(last'.args[4]), ToU32(last'.args[5]))) =>
            /\ last'.result = "rejected"
            /\ UNCHANGED << surface_vars, output_vars, shm_vars, client_err >>]_vars

\* a refused rectangle of positive area, sent after a repaint to a surface
\* that holds damage and a live buffer
C21_Witness ==
    /\ last.op = "damage"
    /\ last.result = "rejected"
    /\ last.args[4] > 0 /\ last.args[5] > 0
    /\ frame_count > 0
    /\ \E s \in Range(surfaces) :
           /\ s.id = last.args[1]
           /\ s.damage # {}
           /\ BufferResource(s.buffer_resource) # NULL
    /\ \A c \in AllClients : ~client_err[c]

\* C23: at every repaint no surface refers to a destroyed buffer: the buffer
\* a surface holds is a live buffer, and a pixel view is held only of a live
\* buffer.
C23_NoReferenceToDestroyed ==
    last.op = "commit" =>
        \A s \in Range(surfaces) :
            /\ s.buffer_resource # NoObject =>
                   BufferResource(s.buffer_resource) # NULL
            /\ s.image # NULL => BufferResource(s.buffer_resource) # NULL

\* C24: a successful bind of wl_shm sends exactly two format events, ARGB8888
\* and XRGB8888, and create_buffer refuses a format (for dimensions it
\* accepts) exactly when the format is not among the advertised ones.
C24_AdvertisedFormats ==
    [][/\ (last'.op = "bind_shm" /\ last'.result = NoError) =>
              /\ Len(last'.args) = 2
              /\ Range(last'.args)
                     = {WL_SHM_FORMAT_ARGB8888, WL_SHM_FORMAT_XRGB8888}
       /\ (last'.op = "create_buffer" /\ SizeOk(last')) =>
              (last'.result = WL_SHM_ERROR_INVALID_FORMAT
                   <=> last'.args[6] \notin Range(shm_formats))]_vars

\* a client binds while another client holds a buffer of each format
C24_Witness ==
    /\ last.op = "bind_shm"
    /\ last.result = NoError
    /\ Len(last.args) = 2
    /\ Cardinality(buffers) = 2
    /\ \A b \in buffers : b.client # last.client

\* C25: right after a successful output_create(width, height) the new output
\* holds a framebuffer of width * height pixels, each opaque black (alpha
\* 255, red, green and blue 0), its damage region is empty and it is in the
\* output list.
C25_OutputCreatedOpaqueBlack ==
    (last.op = "output_create" /\ last.result = NoError) =>
        /\ outputs # << >>
        /\ LET output == Head(outputs)
           IN  /\ output.width = last.args[1] /\ output.height = last.args[2]
               /\ Cardinality(DOMAIN output.framebuffer)
                      = last.args[1] * last.args[2]
               /\ \A p \in DOMAIN output.framebuffer :
                      output.framebuffer[p] = << 255, 0, 0, 0 >>
               /\ output.damage = {}

\* the entries of a request log that name a memory operation on an object
MemOps(log, op, kind, id) ==
    {i \in 1 .. Len(log) : log[i] = MemOp(op, kind, id)}

\* the random source cannot be read: its first read fails, or is at the end
\* of the file
CannotBeRead(source) ==
    LET r == SourceAt(source, 1)
    IN  r.n = 0 \/ (r.n < 0 /\ r.errno # "EINTR")

\* the cases of C26: the context cannot be allocated, or the random source
\* not be opened or not be read, or the socket cannot be opened
StartupMustAbort(req) ==
    \/ /\ req.op = "security_context_create"
       /\ ~req.args[1] \/ ~req.args[2] \/ CannotBeRead(req.args[3])
    \/ req.op = "wl_display_add_socket_auto" /\ ~req.args[1]

\* C26: when the security context or the socket cannot be created main()
\* exits with status 1; every step of startup that fails exits with status 1
\* holding no resource (no context, display, socket, global or output); and
\* a process that has exited never runs the event loop.
C26_StartupAborts ==
    [][/\ (pc \notin Running /\ pc # "exit" /\ StartupMustAbort(last')) =>
              last'.result = "failed"
       /\ (pc \notin Running /\ pc # "exit" /\ last'.result = "failed") =>
              /\ pc' = "exit"
              /\ exit_status' = << 1 >>
              /\ live' = {}
              /\ sec_ctx' = NULL
              /\ outputs' = << >>
       /\ pc = "exit" => pc' = "exit"]_vars

\* C27: security_context_create returns, and either returns a context with
\* every byte of the session token read from the random source and an empty
\* client registry, or returns no context and leaves nothing allocated or
\* open; it fails when the random source cannot be opened or read.
C27_ContextCreate ==
    [][last'.op = "security_context_create" =>
          /\ last'.result \in {NoError, "failed"}
          /\ IF last'.result = NoError
             THEN /\ sec_ctx' # NULL
                  /\ \A i \in 1 .. SessionIdBytes :
                         sec_ctx'.session_id[i] = "random"
                  /\ sec_clients' = << >>
                  /\ live' = live \cup {"sec_ctx"}
             ELSE /\ sec_ctx' = NULL
                  /\ live' = live
                  /\ exit_status' = << 1 >>
          /\ (~last'.args[2] \/ CannotBeRead(last'.args[3])) =>
                 last'.result = "failed"]_vars

\* C28: security_context_destroy removes every entry of the registry and
\* frees it once, after overwriting it, frees nothing else but the context,
\* which it overwrites first, and leaves an empty registry; applied to no
\* context it changes nothing.
C28_ContextDestroy ==
    [][/\ (sec_ctx # NULL /\ sec_ctx' = NULL) =>
              LET log == SubSeq(released', Len(released) + 1, Len(released'))
                  ids == {e.id : e \in Range(sec_clients)}
              IN  /\ sec_clients' = << >>
                  /\ \A id \in ids :
                        /\ Cardinality(MemOps(log, "free", "client_security", id)) = 1
                        /\ Cardinality(MemOps(log, "zero", "client_security", id)) = 1
                        /\ Cardinality(MemOps(log, "remove", "client_security", id)) = 1
                        /\ \A z \in MemOps(log, "zero", "client_security", id),
                              f \in MemOps(log, "free", "client_security", id) : z < f
                  /\ \A i \in 1 .. Len(log) :
                        log[i].kind = "client_security" => log[i].id \in ids
                  /\ Len(log) >= 2
                  /\ log[Len(log) - 1] = MemOp("zero", "security_context", NoObject)
                  /\ log[Len(log)] = MemOp("free", "security_context", NoObject)
                  /\ Cardinality(MemOps(log, "free", "security_context", NoObject)) = 1
       /\ (last'.op = "security_context_destroy" /\ sec_ctx = NULL) =>
              UNCHANGED << surface_vars, output_vars, shm_vars, client_err,
                           main_vars >>]_vars

\* the server was shut down with two entries in the registry
C28_Witness ==
    /\ pc = "exit"
    /\ exit_status = << 0 >>
    /\ sec_clients = << >>
    /\ Cardinality({i \in 1 .. Len(released) :
                       /\ released[i].op = "free"
                       /\ released[i].kind = "client_security"}) = 2

\* C30: the n-th repaint names its snapshot with index n - 1, whether the
\* snapshots before it were written or not, and the frame counter is the
\* number of repaints so far.
C30_SnapshotIndex ==
    /\ frame_count = Len(snapshots)
    /\ \A i \in 1 .. Len(snapshots) : snapshots[i].index = i - 1

\* a second repaint after a repaint whose snapshot could not be written
C30_Witness ==
    /\ Len(snapshots) = 2
    /\ snapshots[1].file.written # "complete"
    /\ snapshots[2].index = 1

\* C29: a client with pid > 0 whose command line cannot be opened, or reads
\* as empty, is validated all the same: validate_client_credentials returns
\* true and the entry made for its surface holds its pid, is_vm = false and
\* surface_count = 0; the surface is created and no error is posted.
C29_UnclassifiedClientAccepted ==
    [][(/\ last'.op = "create_surface"
        /\ last'.client \in {GoneClient, ZombieClient}
        /\ sec_clients' # sec_clients) =>
            LET sec == Head(sec_clients')
                f   == ProcCmdline(Credentials(last'.client).pid)
            IN  /\ f.fd < 0 \/ f.n <= 0
                /\ validate_client_credentials(last'.client, ZeroSec(sec.id)).ok
                /\ sec.pid = Credentials(last'.client).pid
                /\ sec.pid > 0
                /\ sec.is_vm = FALSE
                /\ sec.surface_count = 0
                /\ last'.result = NoError
                /\ ~client_err'[last'.client]
                /\ Len(surfaces') = Len(surfaces) + 1]_vars

\* a surface of the client whose /proc entry is gone, created after a surface
\* of a VM tool
C29_Witness ==
    /\ last.op = "create_surface"
    /\ last.client = GoneClient
    /\ Len(sec_clients) = 2
    /\ sec_clients[1].pid = 4000 + GoneClient
    /\ ~sec_clients[1].is_vm
    /\ sec_clients[2].is_vm

\* C31: a pool resize request is answered without an error and changes
\* nothing: the pools (region, recorded size, descriptor), the mappings and
\* open descriptors, the buffers, the surfaces and the outputs are as before.
C31_ResizeChangesNothing ==
    [][last'.op = "pool_resize" =>
          /\ last'.result = NoError
          /\ ~client_err'[last'.client]
          /\ UNCHANGED << shm_vars, surface_vars, output_vars, client_err >>]_vars

\* a resize to another size of a pool whose owner has a surface that holds a
\* buffer
C31_Witness ==
    /\ last.op = "pool_resize"
    /\ last.result = NoError
    /\ \E p \in pools :
           /\ p.id = last.args[1]
           /\ p.size # last.args[2]
           /\ p.fd \in open_fds /\ p.data \in mapped
    /\ \E s \in Range(surfaces) :
           /\ s.client = last.client
           /\ \E b \in buffers : b.id = s.buffer_resource /\ b.client = last.client

\* the errors with which the server rejects a request
Rejected(req) ==
    req.result \in {WL_SHM_ERROR_INVALID_FORMAT, WL_SHM_ERROR_INVALID_STRIDE,
                    WL_SHM_ERROR_INVALID_FD, WL_DISPLAY_ERROR_NO_MEMORY}

\* the part of a list that other clients than c own
OthersOf(list, c) == SelectSeq(list, LAMBDA s : s.client # c)

\* the registry entries of other processes than that of c
OtherEntries(list, c) ==
    SelectSeq(list, LAMBDA e : e.pid # Credentials(c).pid)

\* C32: a rejected request of a client, and the teardown of its connection
\* that follows, leave the surfaces of every other client (and their order),
\* their pools with their mappings and descriptors, their buffers and their
\* registry entries as they were, put no other connection in error and
\* repaint nothing.
C32_RejectionIsLocal ==
    [][(\/ Rejected(last')
        \/ last'.op = "client_destroy" /\ client_err[last'.client]) =>
          LET a == last'.client
          IN  /\ OthersOf(surfaces', a) = OthersOf(surfaces, a)
              /\ OtherEntries(sec_clients', a) = OtherEntries(sec_clients, a)
              /\ {p \in pools' : p.client # a} = {p \in pools : p.client # a}
              /\ {b \in buffers' : b.client # a} = {b \in buffers : b.client # a}
              /\ \A p \in pools :
                    p.client # a => (p.fd \in open_fds' /\ p.data \in mapped')
              /\ \A d \in AllClients \ {a} : client_err'[d] = client_err[d]
              /\ UNCHANGED output_vars]_vars

\* a create_buffer rejected for its format while the other client holds a
\* surface, a registry entry, a pool and a buffer, and the sender a surface
C32_Witness ==
    /\ last.op = "create_buffer"
    /\ last.result = WL_SHM_ERROR_INVALID_FORMAT
    /\ client_err[last.client]
    /\ \E s \in Range(surfaces) : s.client = last.client
    /\ \E s \in Range(surfaces) :
           /\ s.client # last.client
           /\ s.client_sec # NoObject
           /\ \E b \in buffers : b.id = s.buffer_resource /\ b.client = s.client
    /\ \E p \in pools : p.client # last.client /\ p.fd \in open_fds

\* C33: every buffer create_buffer creates lies inside the mapped memory of
\* its pool: offset >= 0, stride >= 4 * width and
\* offset + stride * height <= the size of the pool; a request that breaks
\* one of these creates no buffer.
C33_BufferInsidePool ==
    (last.op = "create_buffer" /\ last.result = NoError) =>
        LET pool   == PoolById(last.args[1])
            offset == last.args[2]
            width  == last.args[3]
            height == last.args[4]
            stride == last.args[5]
        IN  /\ offset >= 0
            /\ stride >= 4 * width
            /\ offset + stride * height <= pool.size

\* the damage region of the surface with this id in a surface list
DamageOf(list, id) ==
    (CHOOSE s \in Range(list) : s.id = id).damage

\* C34: a surface's damage holds only what was damaged since the last
\* repaint: after a commit the damage of the committed surface is empty, and
\* an empty damage region stays empty until a damage request for that
\* surface is accepted.
C34_DamageSinceLastRepaint ==
    [][/\ last'.op = "commit" => DamageOf(surfaces', last'.args[1]) = {}
       /\ \A s \in Range(surfaces) :
             (/\ s.damage = {}
              /\ s.id \in {t.id : t \in Range(surfaces')}
              /\ DamageOf(surfaces', s.id) # {}) =>
                 (last'.op = "damage" /\ last'.args[1] = s.id
                      /\ last'.result = NoError)]_vars

\* C35: every descriptor received by create_pool is closed once: no close
\* ever hits a descriptor that is not open, the open descriptors are those of
\* the live pools, each held by one pool, so that a failed create_pool and a
\* destroyed pool (by request or at the teardown of the connection) leave
\* their descriptor closed.
C35_DescriptorClosedOnce ==
    /\ bad_close = 0
    /\ open_fds = {p.fd : p \in pools}
    /\ \A p \in pools, q \in pools : p.fd = q.fd => p = q
    /\ (last.op = "create_pool" /\ last.result # NoError) =>
           last.args[1] \notin open_fds

\* the teardown of a connection has closed the descriptor of its pool while
\* the pool of the other client, received later, stays open
C35_Witness ==
    /\ last.op = "client_destroy"
    /\ bad_close = 0
    /\ open_fds = {2}
    /\ mapped = {2}
    /\ \E p \in pools : p.fd = 2 /\ p.client # last.client

\* the positions of a call in a sequence of calls
CallsOf(calls, name) == {i \in 1 .. Len(calls) : calls[i] = name}

\* C36: shm_buffer_get_image opens the access to a shared-memory buffer once
\* and closes it once, after it was opened and as its last call on the
\* buffer, when it returns an image and when it refuses the format (it then
\* returns none); for a resource that is not a shared-memory buffer it
\* opens no access and returns no image.
C36_AccessBracketClosed ==
    last.op = "shm_buffer_get_image" =>
        LET r     == last.args[1]
            calls == last.result.accesses
            image == last.result.image
        IN  IF r = NULL \/ r.implementation # "shm_buffer_interface"
            THEN calls = << >> /\ image = NULL
            ELSE /\ Cardinality(CallsOf(calls, "begin_access")) = 1
                 /\ Cardinality(CallsOf(calls, "end_access")) = 1
                 /\ calls[1] = "begin_access"
                 /\ calls[Len(calls)] = "end_access"
                 /\ r.shm_buffer.format \notin {WL_SHM_FORMAT_ARGB8888,
                                                WL_SHM_FORMAT_XRGB8888}
                        => image = NULL
                 /\ image # NULL => "create_bits" \in Range(calls)

\* a shared-memory buffer of a format that the server does not support
C36_Witness ==
    /\ last.op = "shm_buffer_get_image"
    /\ last.args[1] # NULL
    /\ last.args[1].implementation = "shm_buffer_interface"
    /\ last.args[1].shm_buffer.format = UnsupportedFormat
    /\ last.result.image = NULL
    /\ last.result.accesses = << "begin_access", "end_access" >>

\* what main() holds at each point of its cleanup
ShutdownOrder ==
    /\ pc = "terminated" => live = ServerResources
    /\ pc = "cleanup_shm" =>
           (live = ServerResources \ {"output"} /\ outputs = << >>)
    /\ pc = "cleanup_globals" =>
           live = ServerResources \ {"output", "shm_global"}
    /\ pc = "cleanup_display" =>
           /\ live = {"sec_ctx", "display", "socket"}
           /\ surfaces = << >>
    /\ pc = "cleanup_context" =>
           (live = {"sec_ctx"} /\ sec_ctx # NULL /\ surfaces = << >>)
    /\ pc = "cleanup_done" =>
           (live = {} /\ sec_ctx = NULL /\ sec_clients = << >>)
    /\ pc = "exit" =>
           (live = {} /\ sec_ctx = NULL /\ sec_clients = << >>
                /\ exit_status = << 0 >>)
    /\ sec_ctx = NULL => surfaces = << >>

\* C37: once a signal has ended the event loop the cleanup of main() runs
\* to its end, the process returning 0, whatever signals arrive meanwhile;
\* it destroys the output, then the shm global, then the compositor global
\* with every surface left, then the display, then the security context,
\* and the context is never destroyed while a surface exists.
C37_ShutdownCompletes ==
    /\ []ShutdownOrder
    /\ (pc = "terminated") ~> (pc = "exit" /\ exit_status = << 0 >>)

\* a result of read() that reports an interruption by a signal
InterruptedRead(r) == r.n < 0 /\ r.errno = "EINTR"

\* C38: secure_random_bytes returns whatever the source does; it returns 0
\* only with exactly len bytes read and -1 when the source cannot be opened,
\* when a read fails and when a read hits the end of the file; it reads again
\* only after a read that a signal interrupted; and it has closed its
\* descriptor whenever it has returned.
C38_RandomBytesTerminates ==
    /\ (random_call.pc = "loop") ~> (random_call.pc = "returned")
    /\ [](random_call.pc = "returned" =>
             /\ ~random_call.fd_open
             /\ random_call.ret \in {<< 0 >>, << -1 >>}
             /\ random_call.ret = << 0 >> =>
                    random_call.total = random_call.len)
    /\ [][(random_call.pc = "loop" /\ random_call.total < random_call.len) =>
             LET r == ReadAtMost(SourceAt(random_call.source, random_call.pos),
                                 random_call.len - random_call.total)
             IN  /\ (r.n <= 0 /\ ~InterruptedRead(r)) =>
                        /\ random_call'.pc = "returned"
                        /\ random_call'.ret = << -1 >>
                 /\ (random_call'.pc = "loop"
                         /\ random_call'.total = random_call.total) =>
                        InterruptedRead(r)]_vars
    /\ [][(random_call.pc = "idle" /\ last'.op = "secure_random_bytes"
              /\ ~last'.args[2]) =>
             (random_call'.pc = "returned" /\ random_call'.ret = << -1 >>)]_vars

\* C39: a wl_surface.frame request that gets its resource adds one pending
\* callback and repaints nothing; no callback is ever signalled done; and a
\* callback stays, pending, through every later request, commits and the
\* destruction of its surface included, until its client's connection ends.
C39_CallbackNeverDone ==
    [][/\ \A cb \in callbacks' : ~cb.done
       /\ last'.op = "frame" =>
             /\ UNCHANGED << outputs, frame_count, snapshots, surfaces >>
             /\ callbacks' \in
                   {callbacks,
                    callbacks \cup {NewCallback(last'.args[2], last'.client,
                                                frame_count)}}
       /\ last'.op # "frame" =>
             callbacks' = IF last'.op = "client_destroy"
                          THEN {cb \in callbacks : cb.client # last'.client}
                          ELSE callbacks]_vars

\* a callback requested before the commit that has just repainted is pending
C39_Witness ==
    /\ last.op = "commit"
    /\ \E cb \in callbacks :
          /\ cb.client = last.client
          /\ ~cb.done
          /\ cb.requested_at < frame_count

\* the uids of cred cannot become 0 again by any of the calls that set them
CannotRegainRoot(cred) ==
    /\ 0 \notin {cred.ruid, cred.euid, cred.suid}
    /\ "CAP_SETUID" \notin cred.effective \cup cred.permitted
    /\ ~sys_setuid(cred, 0, FALSE).ok

\* C40: when drop_privileges returns in a process whose effective uid was 0,
\* it has called setgroups(0), setgid(real gid), setuid(real uid) and
\* setuid(0), in that order, the groups are cleared, the gids and uids are
\* the real ones and root cannot be regained; it exits with status 1 when
\* one of the first three calls fails or setuid(0) succeeds; and when the
\* effective uid is not 0 it makes no call and changes nothing.
C40_PrivilegesDropped ==
    last.op \in {"drop_privileges", "main_drop_privileges"} =>
        LET cred  == last.args[1]
            fault == last.args[2]
            res   == last.result
        IN  /\ cred.euid # 0 =>
                  (res.cred = cred /\ ~res.exited /\ res.calls = << >>)
            /\ (cred.euid = 0 /\ ~res.exited) =>
                  /\ res.calls = << << "setgroups", 0 >>,
                                    << "setgid", cred.rgid >>,
                                    << "setuid", cred.ruid >>,
                                    << "setuid", 0 >> >>
                  /\ res.cred.groups = {}
                  /\ {res.cred.rgid, res.cred.egid, res.cred.sgid} = {cred.rgid}
                  /\ {res.cred.ruid, res.cred.euid, res.cred.suid} = {cred.ruid}
                  /\ CannotRegainRoot(res.cred)
            /\ (cred.euid = 0 /\ fault # "none") =>
                  (res.exited /\ res.status = << 1 >>)
            /\ (cred.euid = 0 /\ res.exited) =>
                  /\ res.status = << 1 >>
                  /\ \/ Len(res.calls) < 4
                     \/ sys_setuid(res.cred, 0, FALSE).ok

\* a set-uid root process of a user, in two groups, has dropped its privileges
C40_Witness ==
    /\ last.op = "drop_privileges"
    /\ last.args[1].euid = 0
    /\ last.args[1].ruid # 0
    /\ last.args[1].suid = 0
    /\ last.args[1].groups # {}
    /\ ~last.result.exited
    /\ last.result.cred.euid = last.args[1].ruid

====
